---- MODULE Spec2Model ----
(***************************************************************************)
(* A model of the CMIP6 compliance-checker plugin (cc_plugin_cmip6):       *)
(*   - validators.py : the validator predicates built by ValidatorFactory  *)
(*   - mip_tables.py : the MIP table index and its directory loader        *)
(*   - cmip6.py      : the term cache (_validate_term), parse_date_range,  *)
(*                     check_filename and check_global_attributes          *)
(*                                                                         *)
(* Python strings are TLA+ strings, handled character by character with    *)
(* Len, SubSeq and \o.  A Python value (an attribute of a netCDF file) is  *)
(* a record [ty, s, n]: its runtime type, its text when it is a string and *)
(* its number, in tenths, when it is numeric (a number beyond the range of *)
(* the model's integers keeps its literal in s).                           *)
(***************************************************************************)
EXTENDS Integers, Sequences, FiniteSets, TLC

VARIABLES
    validated,   \* CMIP6Check.__cache["validated"]: kind -> collection -> term -> result
    cvQueries,   \* ghost: key -> number of _validate_term calls that read the CV scope
    returned,    \* ghost: key -> set of results _validate_term returned for the key
    messages,    \* self.__messages of the checker instance
    errors,      \* self.__errors of the checker instance
    result,      \* outcome of the last operation: a Result, or an escaped exception
    ds,          \* the file handed to the last check
    calls,       \* number of operations performed so far
    pc,          \* concurrent _validate_term: statement each thread is at
    targ,        \* concurrent _validate_term: arguments of each thread's call
    tval,        \* concurrent _validate_term: value a thread computed / returned
    mip,         \* the MipTables object: _tables, _table_list, _version
    dir,         \* table loading: the directory listing handed to the loader
    loaded,      \* table loading: "no", "done" or "raised"
    held         \* the Results the host has been handed so far, oldest first

vars == <<validated, cvQueries, returned, messages, errors, result, ds, calls,
          pc, targ, tval, mip, dir, loaded, held>>

(***************************************************************************)
(* Python strings                                                          *)
(***************************************************************************)
Char(s, i) == SubSeq(s, i, i)

UPPER == "ABCDEFGHIJKLMNOPQRSTUVWXYZ"
LOWER == "abcdefghijklmnopqrstuvwxyz"
DIGITS == "0123456789"

CharsOf(s) == { Char(s, i) : i \in 1..Len(s) }
Digit == CharsOf(DIGITS)
Letter == CharsOf(UPPER) \cup CharsOf(LOWER)

\* str.lower() of one character
LowerChar(c) ==
    IF c \in CharsOf(UPPER)
      THEN Char(LOWER, CHOOSE i \in 1..26 : Char(UPPER, i) = c)
      ELSE c

RECURSIVE StrLowerFrom(_, _)
StrLowerFrom(s, i) ==
    IF i > Len(s) THEN "" ELSE LowerChar(Char(s, i)) \o StrLowerFrom(s, i + 1)

\* str.lower()
StrLower(s) == StrLowerFrom(s, 1)

RECURSIVE StrReplaceFrom(_, _, _, _)
StrReplaceFrom(s, old, new, i) ==
    IF i > Len(s) THEN ""
    ELSE (IF Char(s, i) = old THEN new ELSE Char(s, i))
         \o StrReplaceFrom(s, old, new, i + 1)

\* str.replace(old, new) for a one-character old
StrReplace(s, old, new) == StrReplaceFrom(s, old, new, 1)

\* position of the first sep at or after i, or Len(s) + 1
RECURSIVE FindFrom(_, _, _)
FindFrom(s, sep, i) ==
    IF i > Len(s) THEN Len(s) + 1
    ELSE IF Char(s, i) = sep THEN i
    ELSE FindFrom(s, sep, i + 1)

RECURSIVE StrSplitFrom(_, _, _)
StrSplitFrom(s, sep, i) ==
    LET j == FindFrom(s, sep, i) IN
    IF j > Len(s) THEN << SubSeq(s, i, Len(s)) >>
    ELSE << SubSeq(s, i, j - 1) >> \o StrSplitFrom(s, sep, j + 1)

\* str.split(sep) for a one-character sep: empty pieces are kept
StrSplit(s, sep) == StrSplitFrom(s, sep, 1)

\* position of the last sep in s, or 0
RECURSIVE RFind(_, _, _)
RFind(s, sep, i) ==
    IF i < 1 THEN 0 ELSE IF Char(s, i) = sep THEN i ELSE RFind(s, sep, i - 1)

\* os.path.basename
Basename(path) == SubSeq(path, RFind(path, "/", Len(path)) + 1, Len(path))

(***************************************************************************)
(* Regular expressions, as re.match uses them: a pattern is a sequence of  *)
(* items, each a character class taken once or one-or-more times ("+"),    *)
(* or the end anchor "$".  re.match succeeds iff some way of matching the  *)
(* items from position 1 exists.                                           *)
(***************************************************************************)
One(cls)  == [t |-> "one",  cls |-> cls]
Plus(cls) == [t |-> "plus", cls |-> cls]
EndAnchor == [t |-> "end",  cls |-> {}]
Lit(str)  == [i \in 1..Len(str) |-> One({Char(str, i)})]

\* "$" matches at the end of the string and before a final newline
RECURSIVE ReMatchAt(_, _, _, _)
ReMatchAt(re, k, s, pos) ==
    IF k > Len(re) THEN TRUE
    ELSE CASE re[k].t = "end" -> /\ pos = Len(s) + 1 \/ (pos = Len(s) /\ Char(s, pos) = "\n")
                                 /\ ReMatchAt(re, k + 1, s, pos)
           [] re[k].t = "any" -> /\ pos <= Len(s)
                                 /\ Char(s, pos) # "\n"
                                 /\ ReMatchAt(re, k + 1, s, pos + 1)
           [] re[k].t = "one" -> /\ pos <= Len(s)
                                 /\ Char(s, pos) \in re[k].cls
                                 /\ ReMatchAt(re, k + 1, s, pos + 1)
           [] re[k].t = "plus" -> \E n \in 1..(Len(s) - pos + 1) :
                                     /\ \A i \in pos..(pos + n - 1) : Char(s, i) \in re[k].cls
                                     /\ ReMatchAt(re, k + 1, s, pos + n)

\* re.match(regex, s) is not None
ReMatch(re, s) == ReMatchAt(re, 1, s, 1)

(***************************************************************************)
(* Python values                                                           *)
(***************************************************************************)
Str(s)      == [ty |-> "str",     s |-> s,  n |-> 0]
PyInt(n)    == [ty |-> "int",     s |-> "", n |-> 10 * n]
Int32(n)    == [ty |-> "int32",   s |-> "", n |-> 10 * n]
Float64(t)  == [ty |-> "float64", s |-> "", n |-> t]      \* t in tenths
PyNone      == [ty |-> "none",    s |-> "", n |-> 0]
\* a netCDF attribute that is not in the file
Absent      == [ty |-> "absent",  s |-> "", n |-> 0]

TextTypes    == {"str", "unicode"}
NumericTypes == {"int", "int32", "int64", "float", "float64", "float32"}

\* a == b
PyEq(a, b) ==
    IF a.ty \in NumericTypes /\ b.ty \in NumericTypes THEN a.n = b.n /\ a.s = b.s
    ELSE IF a.ty \in TextTypes /\ b.ty \in TextTypes THEN a.s = b.s
    ELSE a.ty = b.ty /\ a.ty = "none"

\* x in allowed_values, for a list
PyIn(x, allowed) == \E i \in 1..Len(allowed) : PyEq(x, allowed[i])

\* bool(x)
PyBool(x) ==
    IF x.ty \in TextTypes THEN x.s # ""
    ELSE IF x.ty \in NumericTypes THEN x.n # 0
    ELSE FALSE

\* str(n) of a natural number
RECURSIVE NatToStr(_)
NatToStr(n) == IF n < 10 THEN Char(DIGITS, n + 1)
               ELSE NatToStr(n \div 10) \o Char(DIGITS, (n % 10) + 1)

\* "{}".format(x)
PyFormat(x) ==
    LET a == IF x.n < 0 THEN 0 - x.n ELSE x.n
        sign == IF x.n < 0 THEN "-" ELSE ""
    IN IF x.ty \in TextTypes THEN x.s
       ELSE IF x.ty = "none" THEN "None"
       ELSE IF x.s # "" THEN x.s
       ELSE IF x.ty \in {"int", "int32", "int64"} THEN sign \o NatToStr(a \div 10)
       ELSE sign \o NatToStr(a \div 10) \o "." \o NatToStr(a % 10)

(***************************************************************************)
(* datetime.strptime                                                       *)
(***************************************************************************)
D19 == Digit \ {"0"}

\* the format string as tokens: a directive "%x" or a literal character
RECURSIVE FormatTokens(_, _)
FormatTokens(fmt, i) ==
    IF i > Len(fmt) THEN << >>
    ELSE IF Char(fmt, i) = "%" /\ i < Len(fmt)
      THEN << [t |-> "dir", c |-> Char(fmt, i + 1)] >> \o FormatTokens(fmt, i + 2)
      ELSE << [t |-> "lit", c |-> Char(fmt, i)] >> \o FormatTokens(fmt, i + 1)

NoMatch == [ok |-> FALSE, end |-> 0, vals |-> << >>]

\* format_regex.match(data_string): the first match in the order a backtracking
\* matcher tries the alternatives; the pattern is compiled with IGNORECASE
RECURSIVE TimeMatch(_, _, _, _)
RECURSIVE TimeAlts(_, _, _, _, _)
TimeMatch(toks, k, s, pos) ==
    IF k > Len(toks) THEN [ok |-> TRUE, end |-> pos, vals |-> << >>]
    ELSE IF toks[k].t = "lit"
      THEN IF pos <= Len(s) /\ LowerChar(Char(s, pos)) = LowerChar(toks[k].c)
             THEN TimeMatch(toks, k + 1, s, pos + 1)
             ELSE NoMatch
      ELSE TimeAlts(toks, k, s, pos, 1)
\* _strptime.TimeRE: the regular expression of each directive, as the ordered
\* alternatives of its group, each a sequence of character classes
TimeAlts(toks, k, s, pos, a) ==
    LET DirAlts(d) ==
            CASE d = "Y" -> << <<Digit, Digit, Digit, Digit>> >>
              [] d = "m" -> << <<{"1"}, {"0", "1", "2"}>>, <<{"0"}, D19>>, <<D19>> >>
              [] d = "d" -> << <<{"3"}, {"0", "1"}>>, <<{"1", "2"}, Digit>>, <<{"0"}, D19>>,
                               <<D19>>, <<{" "}, D19>> >>
              [] d = "H" -> << <<{"2"}, {"0", "1", "2", "3"}>>, <<{"0", "1"}, Digit>>, <<Digit>> >>
              [] d = "M" -> << <<{"0", "1", "2", "3", "4", "5"}, Digit>>, <<Digit>> >>
              [] d = "S" -> << <<{"6"}, {"0", "1"}>>, <<{"0", "1", "2", "3", "4", "5"}, Digit>>,
                               <<Digit>> >>
        alts == DirAlts(toks[k].c)
    IN
    IF a > Len(alts) THEN NoMatch
    ELSE LET alt == alts[a]
             n == Len(alt)
             fits == /\ pos + n - 1 <= Len(s)
                     /\ \A i \in 1..n : Char(s, pos + i - 1) \in alt[i]
             rest == TimeMatch(toks, k + 1, s, pos + n)
         IN IF fits /\ rest.ok
              THEN [ok |-> TRUE, end |-> rest.end,
                    vals |-> << [d |-> toks[k].c, text |-> SubSeq(s, pos, pos + n - 1)] >>
                             \o rest.vals]
              ELSE TimeAlts(toks, k, s, pos, a + 1)

\* int(text) of a group: digits, after an optional blank
RECURSIVE IntOf(_, _, _)
IntOf(text, i, acc) ==
    IF i > Len(text) THEN acc
    ELSE IF Char(text, i) = " " THEN IntOf(text, i + 1, acc)
    ELSE IntOf(text, i + 1, 10 * acc + (CHOOSE d \in 0..9 : Char(DIGITS, d + 1) = Char(text, i)))

\* the value of directive d among the matched groups, or its default
RECURSIVE Field(_, _, _, _)
Field(vals, d, default, i) ==
    IF i > Len(vals) THEN default
    ELSE IF vals[i].d = d THEN IntOf(vals[i].text, 1, 0)
    ELSE Field(vals, d, default, i + 1)

\* datetime.strptime(text, fmt) for a string text:
\* [err |-> "none" | "ValueError", dt |-> <<Y, m, d, H, M, S>>]
Strptime(text, fmt) ==
    LET bad == [err |-> "ValueError", dt |-> << >>]
        DaysInMonth(y, m) ==
            IF m = 2 THEN (IF (y % 4 = 0 /\ y % 100 # 0) \/ y % 400 = 0 THEN 29 ELSE 28)
            ELSE IF m \in {4, 6, 9, 11} THEN 30 ELSE 31
        Date(Y, mo, d, H, Mi, S) ==
            IF Y < 1 \/ d > DaysInMonth(Y, mo) \/ S > 59 THEN bad
            ELSE [err |-> "none", dt |-> <<Y, mo, d, H, Mi, S>>]
        Found(m) ==
            IF ~m.ok THEN bad                          \* does not match format
            ELSE IF m.end # Len(text) + 1 THEN bad     \* unconverted data remains
            ELSE Date(Field(m.vals, "Y", 1900, 1), Field(m.vals, "m", 1, 1),
                      Field(m.vals, "d", 1, 1), Field(m.vals, "H", 0, 1),
                      Field(m.vals, "M", 0, 1), Field(m.vals, "S", 0, 1))
    IN Found(TimeMatch(FormatTokens(fmt, 1), 1, text, 1))

\* a <= b for two datetimes
RECURSIVE DtLeq(_, _, _)
DtLeq(a, b, i) ==
    IF i > Len(a) THEN TRUE
    ELSE IF a[i] < b[i] THEN TRUE
    ELSE IF a[i] > b[i] THEN FALSE
    ELSE DtLeq(a, b, i + 1)

(***************************************************************************)
(* validators.py: a validator is a record, Validate applies it.  The       *)
(* outcome is "true", "false", or "raise" when the predicate raises.       *)
(***************************************************************************)
nonempty_validator          == [v |-> "nonempty"]
value_in_validator(allowed) == [v |-> "value_in", allowed |-> allowed]
float_validator             == [v |-> "float"]
calendar_validator          == [v |-> "calendar"]
string_validator(regex)     == [v |-> "string", regex |-> regex]
integer_validator(positive, nonzero) ==
    [v |-> "integer", positive |-> positive, nonzero |-> nonzero]
date_validator(template)    == [v |-> "date", template |-> template]

\* "no regular expression": string_validator()
NoRegex == << >>

Bool(b) == IF b THEN "true" ELSE "false"

Validate(val, x) ==
    CASE val.v = "nonempty" -> Bool(PyBool(x))
      [] val.v = "value_in" -> Bool(PyIn(x, val.allowed))
      [] val.v = "float"    -> Bool(x.ty = "float64" \/ x.ty = "float")
      [] val.v = "calendar" ->
            \* ^days since ([\d\-]+) \[(gregorian|...|none)\]$, then
            \* dateutil.parser.parse(group 1): a text of one to three numbers
            \* between dashes parses when they can be a year, a month and a day
            LET Calendars == {"gregorian", "standard", "proleptic_gregorian", "noleap",
                              "365_day", "all_leap", "366_day", "360_day", "julian", "none"}
                Number(t) == t # "" /\ Len(t) <= 4 /\ \A i \in 1..Len(t) : Char(t, i) \in Digit
                CanBe(t, lo, hi) == IntOf(t, 1, 0) >= lo /\ IntOf(t, 1, 0) <= hi
                Parses(p) ==
                    /\ Len(p) \in 1..3
                    /\ \A i \in 1..Len(p) : Number(p[i])
                    /\ Len(p) = 1 => CanBe(p[1], 1, 9999)
                    /\ Len(p) = 2 => \E m \in 1..2 : CanBe(p[m], 1, 12)
                    /\ Len(p) = 3 => \E m, d \in 1..3 :
                                        m # d /\ CanBe(p[m], 1, 12) /\ CanBe(p[d], 1, 31)
            IN IF x.ty \notin TextTypes THEN "raise"        \* re.match: TypeError
               ELSE Bool(/\ \E cal \in Calendars :
                              ReMatch(Lit("days since ") \o <<Plus(Digit \cup {"-"})>>
                                      \o Lit(" [" \o cal \o "]") \o <<EndAnchor>>, x.s)
                         /\ Parses(StrSplit(SubSeq(x.s, 12, FindFrom(x.s, " ", 12) - 1), "-")))
      [] val.v = "string"   ->
            IF val.regex = NoRegex THEN Bool(x.ty \in TextTypes)
            ELSE IF x.ty \notin TextTypes THEN "raise"   \* re.match: TypeError
            ELSE Bool(ReMatch(val.regex, x.s))
      [] val.v = "integer"  ->
            \* x < 0 as Python 2 orders values of different types: None is below
            \* every number and every number is below every string
            LET negative == IF x.ty \in NumericTypes THEN x.n < 0 ELSE x.ty = "none"
                valid0 == x.ty = "int32" \/ x.ty = "int"
                valid1 == IF val.positive /\ negative THEN FALSE ELSE valid0
                valid2 == IF val.nonzero /\ PyEq(x, PyInt(0)) THEN FALSE ELSE valid1
            IN Bool(valid2)
      [] val.v = "date"     ->
            IF x.ty \notin TextTypes THEN "raise"        \* strptime: TypeError
            ELSE Bool(Strptime(x.s, val.template).err = "none")

(***************************************************************************)
(* The controlled vocabulary (pyessv.load("wcrp:cmip6")), as far as the    *)
(* checker reads it: the collections of the scope, each a list of terms    *)
(* with three names, and the two lists of descriptions read at start-up.   *)
(***************************************************************************)
Term(label) == [canonical_name |-> StrLower(label), label |-> label, raw_name |-> label]

Scope ==
    [ c \in {"activity-id", "experiment-id", "frequency", "grid-label",
             "institution-id", "realm", "source-id", "source-type",
             "nominal-resolution", "table-id"} |->
        CASE c = "activity-id"        -> <<Term("CMIP")>>
          [] c = "experiment-id"      -> <<Term("piControl"), Term("historical")>>
          [] c = "frequency"          -> <<Term("mon"), Term("day"), Term("fx"), Term("yr")>>
          [] c = "grid-label"         -> <<Term("gn"), Term("gr")>>
          [] c = "institution-id"     -> <<Term("MOHC")>>
          [] c = "realm"              -> <<Term("atmos")>>
          [] c = "source-id"          -> <<Term("GC31-LL"), Term("UKESM1")>>
          [] c = "source-type"        -> <<Term("AOGCM")>>
          [] c = "nominal-resolution" -> <<Term("250 km")>>
          [] c = "table-id"           -> <<Term("Amon"), Term("SIday"), Term("fx")>> ]

TermTypes == {"canonical_name", "label", "raw_name"}

(***************************************************************************)
(* cmip6.py, CMIP6Check._validate_term, called by one thread.  cx carries  *)
(* the cache and the two ghost records.                                    *)
(***************************************************************************)
EmptyDict == << >>

\* d[k] = v
DictPut(d, k, v) == (k :> v) @@ d

\* __cache["validated"] as the class body builds it
EmptyValidated == [tt \in TermTypes |-> EmptyDict]

Bump(q, key) == IF key \in DOMAIN q THEN [q EXCEPT ![key] = @ + 1] ELSE DictPut(q, key, 1)
Note(r, key, v) == IF key \in DOMAIN r THEN [r EXCEPT ![key] = @ \cup {v}]
                   ELSE DictPut(r, key, {v})

\* term in [getattr(trm, term_type) for trm in scope[collection].terms]
TermInCollection(term, collection, term_type) ==
    Bool(PyIn(term, [i \in 1..Len(Scope[collection]) |->
                        Str(Scope[collection][i][term_type])]))

\* scope[collection].terms of a collection the scope does not hold raises the
\* ValueError the code handles
CachedCollectionLookup(term, collection, term_type) ==
    IF collection \in DOMAIN Scope
      THEN TermInCollection(term, collection, term_type)
      ELSE "none"

NewCollectionLookup(term, collection, term_type) ==
    IF collection \in DOMAIN Scope
      THEN TermInCollection(term, collection, term_type)
      ELSE "none"

\* a faulty variant of Cached: the cache is never consulted
CachedNever(v, term, collection, term_type) == FALSE

\* lines 209-211: the term is in the cache, and the call returns it
Cached(v, term, collection, term_type) ==
    /\ collection \in DOMAIN v[term_type]
    /\ term \in DOMAIN v[term_type][collection]

\* a faulty variant of ValidateTermStore: a term that is not cached always
\* starts its collection's dictionary afresh
ValidateTermStoreAfresh(v, term, collection, term_type) ==
    IF Cached(v, term, collection, term_type) THEN v
    ELSE [v EXCEPT ![term_type] =
            DictPut(@, collection,
                    DictPut(EmptyDict, term,
                            NewCollectionLookup(term, collection, term_type)))]

\* the cache after the call's writes
ValidateTermStore(v, term, collection, term_type) ==
    IF Cached(v, term, collection, term_type) THEN v
    ELSE IF collection \in DOMAIN v[term_type]
      THEN [v EXCEPT ![term_type][collection] =
              DictPut(@, term, CachedCollectionLookup(term, collection, term_type))]
      ELSE [v EXCEPT ![term_type] =
              DictPut(@, collection,
                      DictPut(EmptyDict, term,
                              NewCollectionLookup(term, collection, term_type)))]

\* _validate_term(term, collection, term_type): [cx, value].  The call reads
\* the CV scope unless it returns from the cache.
ValidateTerm(cx, term, collection, term_type) ==
    LET key == <<term_type, collection, term>>
        Return(v1, value) ==
            [cx |-> [validated |-> v1,
                     cvQueries |-> IF Cached(cx.validated, term, collection, term_type)
                                     THEN cx.cvQueries ELSE Bump(cx.cvQueries, key),
                     returned  |-> Note(cx.returned, key, value)],
             value |-> value]
        Stored(v1) == Return(v1, v1[term_type][collection][term])
    IN Stored(ValidateTermStore(cx.validated, term, collection, term_type))

(***************************************************************************)
(* mip_tables.py                                                           *)
(***************************************************************************)
META == {"long_name", "standard_name", "units"}

RESERVED_CV_FILE == "CMIP6_CV.json"

\* MipTables.__init__ before the load
EmptyMipTables == [tables |-> EmptyDict, table_list |-> << >>, version |-> PyNone]

\* one file of the directory, in the loop body of _load_tables_from_directory:
\* [mip, raised]
LoadFile(m, file) ==
    IF ~file.json THEN [mip |-> m, raised |-> FALSE]      \* ValueError: pass
    ELSE LET d == file.d IN
      IF "Header" \notin DOMAIN d THEN [mip |-> m, raised |-> FALSE]
      ELSE IF "table_id" \notin DOMAIN d["Header"] THEN [mip |-> m, raised |-> TRUE]
      ELSE LET table_name == SubSeq(d["Header"]["table_id"], 7, Len(d["Header"]["table_id"]))
               m1 == [m EXCEPT !.table_list = Append(@, table_name)]
           IN IF m1.version = PyNone /\ "data_specs_version" \notin DOMAIN d["Header"]
                THEN [mip |-> m1, raised |-> TRUE]
                ELSE LET m2 == IF m1.version = PyNone
                                 THEN [m1 EXCEPT !.version = d["Header"]["data_specs_version"]]
                                 ELSE m1
                     IN IF "variable_entry" \notin DOMAIN d
                          THEN [mip |-> m2, raised |-> TRUE]
                          ELSE [mip |-> [m2 EXCEPT !.tables =
                                           DictPut(@, table_name, d["variable_entry"])],
                                raised |-> FALSE]

\* a faulty variant of the listing: the reserved file is not left out
RECURSIVE ListedFilesAll(_, _)
ListedFilesAll(listing, i) ==
    IF i > Len(listing) THEN << >>
    ELSE (IF listing[i].isfile THEN << listing[i] >> ELSE << >>)
         \o ListedFilesAll(listing, i + 1)

\* files = [f for f in listdir(basedir) if isfile(...) and f != "CMIP6_CV.json"]
RECURSIVE ListedFiles(_, _)
ListedFiles(listing, i) ==
    IF i > Len(listing) THEN << >>
    ELSE (IF listing[i].isfile /\ listing[i].name # RESERVED_CV_FILE
            THEN << listing[i] >> ELSE << >>)
         \o ListedFiles(listing, i + 1)

RECURSIVE LoadFiles(_, _, _)
LoadFiles(m, files, i) ==
    IF i > Len(files) THEN [mip |-> m, raised |-> FALSE]
    ELSE LET r == LoadFile(m, files[i]) IN
         IF r.raised THEN r ELSE LoadFiles(r.mip, files, i + 1)

\* MipTables._load_tables_from_directory: [mip, raised]
LoadTablesFromDirectory(m, listing) == LoadFiles(m, ListedFiles(listing, 1), 1)

RECURSIVE SetToSeq(_)
SetToSeq(S) == IF S = {} THEN << >>
               ELSE LET e == CHOOSE x \in S : TRUE IN << e >> \o SetToSeq(S \ {e})

\* self._tables[table_name] raises KeyError
HasTable(m, table_name) == table_name.ty \in TextTypes /\ table_name.s \in DOMAIN m.tables

\* MipTables.get_variable_meta: [raised, meta]
GetVariableMeta(m, table_name, variable_name) ==
    IF ~ (/\ HasTable(m, table_name)
          /\ variable_name.ty \in TextTypes
          /\ variable_name.s \in DOMAIN m.tables[table_name.s])
      THEN [raised |-> TRUE, meta |-> EmptyDict]
      ELSE LET entry == m.tables[table_name.s][variable_name.s] IN
           [raised |-> FALSE, meta |-> [k \in DOMAIN entry \cap META |-> entry[k]]]

\* MipTables.get_variables_from_table: [raised, keys]
GetVariablesFromTable(m, table_name) ==
    IF ~HasTable(m, table_name) THEN [raised |-> TRUE, keys |-> << >>]
    ELSE [raised |-> FALSE,
          keys |-> LET ks == SetToSeq(DOMAIN m.tables[table_name.s])
                   IN [i \in 1..Len(ks) |-> Str(ks[i])]]

(***************************************************************************)
(* cmip6.py: get_datetime_template and parse_date_range                    *)
(***************************************************************************)
DatetimeTemplates ==
    [ f \in {"yr", "yrPt", "dec", "mon", "monC", "monPt", "day", "6hr", "6hrPt",
             "3hr", "3hrPt", "1hr", "1hrCM", "1hrPt", "subhr", "subhrPt", "fx"} |->
        CASE f \in {"yr", "yrPt", "dec"}     -> "%Y"
          [] f \in {"mon", "monC", "monPt"}  -> "%Y%m"
          [] f = "day"                       -> "%Y%m%d"
          [] f \in {"6hr", "6hrPt", "3hr", "3hrPt", "1hr", "1hrCM", "1hrPt"}
                                             -> "%Y%m%d%H%M"
          [] f \in {"subhr", "subhrPt"}      -> "%Y%m%d%H%M%S"
          [] f = "fx"                        -> "" ]

\* get_datetime_template: [raised, template]
GetDatetimeTemplate(frequency) ==
    IF frequency.ty \in TextTypes /\ frequency.s \in DOMAIN DatetimeTemplates
      THEN [raised |-> FALSE, template |-> DatetimeTemplates[frequency.s]]
      ELSE [raised |-> TRUE, template |-> ""]

\* a faulty variant of RangeNotIncreasing: datetime2 < datetime1
RangeDecreasing(datetime1, datetime2) ==
    DtLeq(datetime2, datetime1, 1) /\ datetime1 # datetime2

\* datetime2 <= datetime1
RangeNotIncreasing(datetime1, datetime2) == DtLeq(datetime2, datetime1, 1)

\* parse_date_range: [exc, ret], exc the exception raised ("none": it returns),
\* ret "None" or "tuple"
ParseDateRange(daterange, frequency) ==
    LET Range(datetime1, datetime2) ==
            IF datetime1.err # "none" \/ datetime2.err # "none"
              THEN [exc |-> "ValueError", ret |-> "None"]
            ELSE IF RangeNotIncreasing(datetime1.dt, datetime2.dt)
              THEN [exc |-> "Exception", ret |-> "None"]
            ELSE [exc |-> "none", ret |-> "tuple"]
        Dates(dateparts, tpl) ==
            IF Len(dateparts) < 2 THEN [exc |-> "IndexError", ret |-> "None"]
            ELSE IF tpl.raised THEN [exc |-> "ValueError", ret |-> "None"]
            ELSE Range(Strptime(dateparts[1], tpl.template),
                       Strptime(dateparts[2], tpl.template))
    IN IF PyEq(frequency, Str("fx")) THEN [exc |-> "none", ret |-> "None"]
       ELSE Dates(StrSplit(daterange, "-"), GetDatetimeTemplate(frequency))

(***************************************************************************)
(* The netCDF file handed to a check: its path, its global attributes      *)
(* (Absent when the file has none of that name), the attributes of its     *)
(* variables and the first value of its time coordinate.                   *)
(***************************************************************************)
HasAttr(file, name) == file.attrs[name] # Absent

\* a diagnostic message: the format string and its arguments
Msg(fmt, args) == [fmt |-> fmt, args |-> args]

(***************************************************************************)
(* cmip6.py, CMIP6Check.check_filename.  The state of a run is st =        *)
(* [cx, raised, valid, msgs]; a step leaves it alone once an exception     *)
(* has escaped.                                                            *)
(***************************************************************************)
\* template_dict, in the order the loop visits it
TemplateDict == << [cv |-> "table-id", idx |-> 1], [cv |-> "source-id", idx |-> 2],
                   [cv |-> "experiment-id", idx |-> 3], [cv |-> "grid-label", idx |-> 5] >>

VARIANT_LABEL_REGEX ==
    <<One({"r"}), Plus(Digit), One({"i"}), Plus(Digit),
      One({"p"}), Plus(Digit), One({"f"}), Plus(Digit), EndAnchor>>

Invalidate(st, msg) == [st EXCEPT !.valid = FALSE, !.msgs = Append(@, msg)]
Raise(st) == [st EXCEPT !.raised = TRUE]

\* filename_parts[i], a Python index (an IndexError when i >= len)
Part(parts, i) == parts[i + 1]

\* the body of the loop over template_dict (lines 271-278)
FacetStep(st, file, filename, parts, cv, idx) ==
    IF st.raised THEN st
    ELSE IF idx >= Len(parts) THEN Raise(st)          \* IndexError
    ELSE LET Compared(st1, attr) ==               \* lines 275-278
                 IF attr = Absent THEN Raise(st1)     \* getncattr: AttributeError
                 ELSE IF ~PyEq(attr, Str(Part(parts, idx)))
                   THEN Invalidate(st1,
                            Msg("Value {} of the attribute {} doesn't match filename {}",
                                <<PyFormat(attr), cv, filename>>))
                   ELSE st1
             Validated(st1, value) ==
                 IF value # "true"
                   THEN Invalidate(st1, Msg("Invalid term {} in the filename {}",
                                            <<cv, filename>>))
                   ELSE Compared(st1, file.attrs[StrReplace(cv, "-", "_")])
             Looked(r) == Validated([st EXCEPT !.cx = r.cx], r.value)
         IN Looked(ValidateTerm(st.cx, Str(StrLower(Part(parts, idx))), cv, "canonical_name"))

RECURSIVE FacetLoop(_, _, _, _, _)
FacetLoop(st, file, filename, parts, i) ==
    IF i > Len(TemplateDict) \/ st.raised THEN st
    ELSE FacetLoop(FacetStep(st, file, filename, parts, TemplateDict[i].cv, TemplateDict[i].idx),
                   file, filename, parts, i + 1)

\* lines 281-284: the optional sub-experiment of the member id
SubExperimentStep(st, filename, member_id) ==
    IF st.raised \/ Len(member_id) <= 1 THEN st
    ELSE LET Validated(st1, value) ==
                 IF value # "true"
                   THEN Invalidate(st1, Msg("Invalid term {} in the filename {}",
                                            <<"sub_experiment_id", filename>>))
                   ELSE st1
             Looked(r) == Validated([st EXCEPT !.cx = r.cx], r.value)
         IN Looked(ValidateTerm(st.cx, Str(member_id[2]), "experiment-id", "canonical_name"))

\* lines 285-293: the variant label
VariantLabelStep(st, file, member_id) ==
    IF st.raised THEN st
    ELSE IF ~ReMatch(VARIANT_LABEL_REGEX, member_id[1])
      THEN Invalidate(st, Msg("Invalid variant_label {}", <<member_id[1]>>))
    ELSE LET variant_label == file.attrs["variant_label"] IN
         IF variant_label = Absent THEN Raise(st)
         ELSE IF ~PyEq(variant_label, Str(member_id[1]))
           THEN Invalidate(st, Msg("Variant label {} is not consistent with file contents ({})",
                                   <<member_id[1], PyFormat(variant_label)>>))
           ELSE st

\* lines 279-293
MemberIdStep(st, file, filename, parts) ==
    IF st.raised THEN st
    ELSE IF 4 >= Len(parts) THEN Raise(st)            \* IndexError
    ELSE LET Member(member_id) ==
                 VariantLabelStep(SubExperimentStep(st, filename, member_id), file, member_id)
         IN Member(StrSplit(Part(parts, 4), "-"))

\* lines 295-297: the variable must be one of its table's
VariableStep(st, m, parts) ==
    IF st.raised THEN st
    ELSE IF \E i \in 1..Len(m.table_list) : m.table_list[i] = Part(parts, 1)
      THEN LET Among(vs) ==
                   IF vs.raised THEN Raise(st)
                   ELSE IF ~PyIn(Str(Part(parts, 0)), vs.keys)
                     THEN [st EXCEPT !.valid = FALSE]
                     ELSE st
           IN Among(GetVariablesFromTable(m, Str(Part(parts, 1))))
      ELSE st

\* lines 299-307
DateRangeStep(st, file, parts) ==
    IF st.raised \/ Len(parts) # 7 THEN st
    ELSE LET \* what "d1, d2 = parse_date_range(...)" raises inside the try
             Unpack(r) ==
                 IF r.exc # "none" THEN r.exc
                 ELSE IF r.ret = "None" THEN "TypeError"    \* None cannot be unpacked
                 ELSE "none"
             \* the handler; the exception's text is kept as the exception's type
             Except(e) ==
                 IF e # "none"
                   THEN Invalidate(st, Msg("Invalid daterange {} ({})", <<Part(parts, 6), e>>))
                   ELSE st
         IN IF file.attrs["frequency"] = Absent THEN Except("AttributeError")
            ELSE Except(Unpack(ParseDateRange(Part(parts, 6), file.attrs["frequency"])))

\* check_filename(ds): [cx, raised, score, out_of, name, msgs]
CheckFilenameRun(cx, m, file) ==
    LET st0 == [cx |-> cx, raised |-> FALSE, valid |-> TRUE, msgs |-> << >>]
        Outcome(st) ==
            [cx |-> st.cx, raised |-> st.raised,
             score |-> IF st.valid THEN 1 ELSE 0, out_of |-> 1,
             name |-> "DRS template check", msgs |-> st.msgs]
        Steps(filename, parts) ==
            DateRangeStep(
                VariableStep(
                    MemberIdStep(FacetLoop(st0, file, filename, parts, 1),
                                 file, filename, parts),
                    m, parts),
                file, parts)
        Named(filename) == Outcome(Steps(filename, StrSplit(StrSplit(filename, ".")[1], "_")))
    IN Named(Basename(file.path))

(***************************************************************************)
(* cmip6.py: the module's constants                                        *)
(***************************************************************************)
ESDOC_BASE_URL == "http://furtherinfo.es-doc.org"

LICENSE_TEXT ==
    "CMIP6 model data produced by MOHC is licensed under a "
    \o "Creative Commons Attribution ShareAlike 4.0 International "
    \o "License (https://creativecommons.org/licenses). Consult "
    \o "https://pcmdi.llnl.gov/CMIP6/TermsOfUse for terms of use "
    \o "governing CMIP6 output, including citation requirements and "
    \o "proper acknowledgment. Further information about this data, "
    \o "including some limitations, can be found via the "
    \o "further_info_url (recorded as a global attribute in this "
    \o "file) . The data producers and data providers make no "
    \o "warranty, either express or implied, including, but not "
    \o "limited to, warranties of merchantability and fitness for a "
    \o "particular purpose. All liabilities arising from the supply "
    \o "of the information (including any liability arising in "
    \o "negligence) are excluded to the fullest extent permitted by "
    \o "law."

\* ^([a-zA-Z\d\-_\.\s]+) \(\d{4}\)
SOURCE_REGEX ==
    <<Plus(Letter \cup Digit \cup {"-", "_", ".", " ", "\t", "\n", "\r", "\f"})>> \o Lit(" (")
    \o <<One(Digit), One(Digit), One(Digit), One(Digit)>> \o Lit(")")

CF_CONVENTIONS == <<Str("CF-1.7 CMIP-6.2"), Str("CF-1.7 CMIP-6.2 UGRID-1.0")>>

CV_ATTRIBUTES == <<"activity-id", "experiment-id", "frequency", "grid-label",
                   "institution-id", "realm", "source-id", "source-type",
                   "nominal-resolution", "table-id">>

RUN_INDEX_ATTRIBUTES == <<"forcing_index", "physics_index", "initialization_index",
                          "realization_index">>

MANDATORY_TEXT_ATTRIBUTES == <<"grid">>

OPTIONAL_TEXT_ATTRIBUTES == <<"history", "references", "title", "variant_info",
                              "contact", "comment">>

PARENT_ATTRIBUTES == <<"branch_method", "parent_activity_id", "parent_experiment_id",
                       "parent_mip_era", "parent_source_id", "parent_time_units",
                       "parent_source_id">>

\* the keys of attr_dict and of var_attr, in the order the loops visit them
ATTR_DICT_KEYS == <<"forcing_index", "realization_index", "initialization_index",
                    "physics_index", "experiment_id", "sub_experiment_id",
                    "variant_label", "mip_era", "source_id", "institution_id",
                    "table_id", "variable_id">>

VAR_ATTR_KEYS == <<"standard_name", "long_name", "comment", "units", "original_name",
                   "cell_methods", "cell_measures", "missing_value", "_FillValue">>

\* 1.e+20
FILL_VALUE == [ty |-> "float", s |-> "1e+20", n |-> 0]

(***************************************************************************)
(* cmip6.py: the helpers of check_global_attributes.  The state of a run   *)
(* is st = [cx, raised, errors, msgs].                                     *)
(***************************************************************************)
\* self.__messages.append(msg); self.__errors += 1
AddError(st, msg) == [st EXCEPT !.errors = @ + 1, !.msgs = Append(@, msg)]

\* CMIP6Check._exists_and_valid
ExistsAndValid(st, file, attr, validator) ==
    LET Outcome(ok) ==
            IF ok = "raise" THEN Raise(st)
            ELSE IF ok = "false"
              THEN AddError(st, Msg("Attribute {} must exist and have a proper value", <<attr>>))
              ELSE st
    IN IF st.raised THEN st
       ELSE Outcome(IF HasAttr(file, attr) THEN Validate(validator, file.attrs[attr])
                    ELSE "false")

\* a faulty variant of _does_not_exist_or_valid: the attribute is required
MustExistAndValid(st, file, attr, validator) == ExistsAndValid(st, file, attr, validator)

\* CMIP6Check._does_not_exist_or_valid
DoesNotExistOrValid(st, file, attr, validator) ==
    LET Outcome(ok) ==
            IF ok = "raise" THEN Raise(st)
            ELSE IF ok = "false"
              THEN AddError(st, Msg("Attribute {} needs to have a valid value or be omitted",
                                    <<attr>>))
              ELSE st
    IN IF st.raised THEN st
       ELSE Outcome(IF HasAttr(file, attr) THEN Validate(validator, file.attrs[attr])
                    ELSE "true")

\* CMIP6Check._validate_cv_attribute(ds, collection, nc_name)
ValidateCvAttribute(st, file, collection, nc_name) ==
    LET \* lines 619-626: what the outcome of _validate_term adds
        Illegal(st1, validate) ==
            IF validate # "true"
              THEN AddError(st1, Msg("Attribute {} has illegal value {}",
                                     <<nc_name, PyFormat(file.attrs[nc_name])>>))
              ELSE st1
        Verdict(st1, validate) ==
            Illegal(IF validate = "none"
                      THEN AddError(st1, Msg("Unknown CV collection type {}", <<collection>>))
                      ELSE st1,
                    validate)
        Looked(r) == Verdict([st EXCEPT !.cx = r.cx], r.value)
    IN IF st.raised THEN st
       ELSE IF ~HasAttr(file, nc_name)
         THEN AddError(st, Msg("Attribute {} is missing from the ncdf file", <<nc_name>>))
       ELSE Looked(ValidateTerm(st.cx, file.attrs[nc_name], collection, "label"))

\* the calls check_global_attributes makes of the three helpers, as values
ExistsAndValidCall(attr, validator) ==
    [helper |-> "_exists_and_valid", attr |-> attr, validator |-> validator]
DoesNotExistOrValidCall(attr, validator) ==
    [helper |-> "_does_not_exist_or_valid", attr |-> attr, validator |-> validator]
ValidateCvAttributeCall(collection, nc_name) ==
    [helper |-> "_validate_cv_attribute", attr |-> nc_name, collection |-> collection]

\* one call of a helper
HelperCall(st, file, c) ==
    CASE c.helper = "_exists_and_valid" -> ExistsAndValid(st, file, c.attr, c.validator)
      [] c.helper = "_does_not_exist_or_valid" ->
            DoesNotExistOrValid(st, file, c.attr, c.validator)
      [] c.helper = "_validate_cv_attribute" ->
            ValidateCvAttribute(st, file, c.collection, c.attr)

\* the calls of a run of statements, one after the other; an exception that
\* escapes one of them ends the run
RECURSIVE HelperCalls(_, _, _, _)
HelperCalls(st, file, cs, i) ==
    IF i > Len(cs) \/ st.raised THEN st
    ELSE HelperCalls(HelperCall(st, file, cs[i]), file, cs, i + 1)

(***************************************************************************)
(* cmip6.py, CMIP6Check.check_global_attributes                            *)
(***************************************************************************)
\* lines 340-396: the attribute by attribute validations, in order
FixedAttributeSteps(m) ==
    [i \in 1..Len(CV_ATTRIBUTES) |->
        ValidateCvAttributeCall(CV_ATTRIBUTES[i], StrReplace(CV_ATTRIBUTES[i], "-", "_"))]
    \o [i \in 1..Len(RUN_INDEX_ATTRIBUTES) |->
        ExistsAndValidCall(RUN_INDEX_ATTRIBUTES[i], integer_validator(TRUE, TRUE))]
    \o [i \in 1..Len(MANDATORY_TEXT_ATTRIBUTES) |->
        ExistsAndValidCall(MANDATORY_TEXT_ATTRIBUTES[i], string_validator(NoRegex))]
    \o [i \in 1..Len(OPTIONAL_TEXT_ATTRIBUTES) |->
        DoesNotExistOrValidCall(OPTIONAL_TEXT_ATTRIBUTES[i], string_validator(NoRegex))]
    \o << ExistsAndValidCall("experiment", value_in_validator(<<Str("pre-industrial control"),
                                                               Str("all-forcing simulation")>>)),
          ExistsAndValidCall("institution", value_in_validator(<<Str("Met Office Hadley Centre, Exeter, UK")>>)),
          ExistsAndValidCall("Conventions", value_in_validator(CF_CONVENTIONS)),
          ExistsAndValidCall("creation_date", date_validator("%Y-%m-%dT%H:%M:%SZ")),
          ExistsAndValidCall("data_specs_version", value_in_validator(<<m.version>>)),
          DoesNotExistOrValidCall("external_variables",
                                  value_in_validator(<<Str("areacella"), Str("areacello")>>)),
          ExistsAndValidCall("license", value_in_validator(<<Str(LICENSE_TEXT)>>)),
          ExistsAndValidCall("mip_era", value_in_validator(<<Str("CMIP6")>>)),
          ExistsAndValidCall("product", value_in_validator(<<Str("model-output")>>)),
          ExistsAndValidCall("source", string_validator(SOURCE_REGEX)),
          \* ^hdl:21.14100\/[a-zA-Z\d\-]+$
          ExistsAndValidCall("tracking_id",
              string_validator(Lit("hdl:21") \o <<[t |-> "any", cls |-> {}]>> \o Lit("14100/")
                               \o <<Plus(Letter \cup Digit \cup {"-"}), EndAnchor>>)) >>

\* attr_dict after the loop of lines 413-419
AttrDict(file) ==
    [k \in {ATTR_DICT_KEYS[i] : i \in 1..Len(ATTR_DICT_KEYS)} |->
        IF HasAttr(file, k) THEN file.attrs[k] ELSE PyNone]

\* the loop of lines 413-419
RECURSIVE AttrDictLoop(_, _, _)
AttrDictLoop(st, file, i) ==
    IF i > Len(ATTR_DICT_KEYS) \/ st.raised THEN st
    ELSE AttrDictLoop(IF HasAttr(file, ATTR_DICT_KEYS[i]) THEN st
                      ELSE AddError(st, Msg("Cannot retrieve global attribute {}",
                                            <<ATTR_DICT_KEYS[i]>>)),
                      file, i + 1)

\* ds.variables[variable_id].getncattr(attr_key) succeeds
HasVarAttr(file, variable_id, attr_key) ==
    /\ variable_id.ty \in TextTypes
    /\ variable_id.s \in DOMAIN file.variables
    /\ attr_key \in DOMAIN file.variables[variable_id.s]

\* var_attr after the loop of lines 433-440
VarAttr(file) ==
    [k \in {VAR_ATTR_KEYS[i] : i \in 1..Len(VAR_ATTR_KEYS)} |->
        IF HasVarAttr(file, AttrDict(file)["variable_id"], k)
          THEN file.variables[AttrDict(file)["variable_id"].s][k]
          ELSE PyNone]

\* the loop of lines 433-440
RECURSIVE VarAttrLoop(_, _, _)
VarAttrLoop(st, file, i) ==
    IF i > Len(VAR_ATTR_KEYS) \/ st.raised THEN st
    ELSE VarAttrLoop(IF HasVarAttr(file, AttrDict(file)["variable_id"], VAR_ATTR_KEYS[i])
                       THEN st
                       ELSE AddError(st, Msg("Cannot retrieve variable attribute {}",
                                             <<VAR_ATTR_KEYS[i]>>)),
                     file, i + 1)

\* the loop over var_meta (lines 444-454)
RECURSIVE VarMetaLoop(_, _, _, _, _)
VarMetaLoop(st, file, var_meta, keys, i) ==
    LET Body(key) ==
            IF key \notin DOMAIN VarAttr(file)
              THEN AddError(st, Msg("Variable attribute '{}' absent in '{}'",
                                    <<key, PyFormat(AttrDict(file)["variable_id"])>>))
            ELSE IF key \notin {"missing_value", "_FillValue"}
              THEN [st EXCEPT !.errors =
                        @ + (IF PyEq(VarAttr(file)[key], var_meta[key]) THEN 0 ELSE 1)]
              ELSE [st EXCEPT !.errors =
                        @ + (IF PyEq(VarAttr(file)[key], FILL_VALUE) THEN 0 ELSE 1)]
    IN IF i > Len(keys) \/ st.raised THEN st
       ELSE VarMetaLoop(Body(keys[i]), file, var_meta, keys, i + 1)

\* lines 442-454: the table's metadata of the variable against the file's
TableMetaStep(st, m, file) ==
    LET Compare(vm) ==
            IF vm.raised THEN Raise(st)                  \* KeyError, outside any try
            ELSE VarMetaLoop(st, file, vm.meta, SetToSeq(DOMAIN vm.meta), 1)
    IN IF st.raised THEN st
       ELSE Compare(GetVariableMeta(m, AttrDict(file)["table_id"],
                                    AttrDict(file)["variable_id"]))

\* lines 456-491: the statements of the try block; get_variables_from_table
\* raises the KeyError the except clause reports, which ends the block
DerivedAttributeSteps(st, m, file) ==
    LET \* "{}/{}.{}.{}.{}.{}.{}".format(ESDOC_BASE_URL, ...)
        FurtherInfoUrl(a) ==
            ESDOC_BASE_URL \o "/" \o PyFormat(a["mip_era"])
            \o "." \o PyFormat(a["institution_id"])
            \o "." \o PyFormat(a["source_id"]) \o "." \o PyFormat(a["experiment_id"])
            \o "." \o PyFormat(a["sub_experiment_id"]) \o "." \o PyFormat(a["variant_label"])
        \* "r{}i{}p{}f{}".format(realization, initialization, physics, forcing)
        ComposedVariantLabel(a) ==
            "r" \o PyFormat(a["realization_index"])
            \o "i" \o PyFormat(a["initialization_index"])
            \o "p" \o PyFormat(a["physics_index"]) \o "f" \o PyFormat(a["forcing_index"])
        Variables(s1, a, vs) ==
            IF vs.raised
              THEN AddError(s1, Msg("Cannot retrieve attribute. Exception: {}", <<"KeyError">>))
              ELSE HelperCalls(s1, file,
                     << ExistsAndValidCall("variable_id", value_in_validator(vs.keys)),
                        ExistsAndValidCall("variant_label",
                            value_in_validator(<<Str(ComposedVariantLabel(a))>>)) >>, 1)
        Block(a) ==
            Variables(ExistsAndValid(st, file, "further_info_url",
                                     value_in_validator(<<Str(FurtherInfoUrl(a))>>)),
                      a, GetVariablesFromTable(m, a["table_id"]))
    IN IF st.raised THEN st ELSE Block(AttrDict(file))

\* lines 498-534, in order
ParentSteps(file) ==
    << ValidateCvAttributeCall("experiment-id", "parent_experiment_id"),
       ExistsAndValidCall("branch_method", nonempty_validator),
       ExistsAndValidCall("branch_time_in_child", float_validator),
       ExistsAndValidCall("branch_time_in_parent", float_validator),
       ValidateCvAttributeCall("activity-id", "parent_activity_id"),
       ValidateCvAttributeCall("experiment-id", "parent_experiment_id"),
       ExistsAndValidCall("parent_mip_era", value_in_validator(<<Str("CMIP6")>>)),
       ValidateCvAttributeCall("source-id", "parent_source_id"),
       ExistsAndValidCall("parent_source_id",
                          value_in_validator(<<AttrDict(file)["source_id"]>>)),
       ExistsAndValidCall("parent_time_units", string_validator(Lit("days since"))),
       ExistsAndValidCall("parent_variant_label", string_validator(VARIANT_LABEL_REGEX)) >>

\* lines 545-554, in order
NoParentSteps ==
    << DoesNotExistOrValidCall("branch_time_in_parent", value_in_validator(<<[Float64(0) EXCEPT !.ty = "float"]>>)) >>
    \o [i \in 1..Len(PARENT_ATTRIBUTES) |->
        DoesNotExistOrValidCall(PARENT_ATTRIBUTES[i],
                                value_in_validator(<<Str("no parent")>>))]

\* lines 493-554
ParentBranch(st, file) ==
    LET \* lines 493-497
        has_parent ==
            ~ (\/ ~HasAttr(file, "parent_experiment_id")
               \/ PyEq(file.attrs["parent_experiment_id"], Str("no parent")))
        \* lines 536-544: the start of the run against branch_time_in_child
        StartOfRun ==
            IF file.time0 = Absent
              THEN [st EXCEPT !.msgs = Append(@, Msg("Unable to retrieve time variable", << >>))]
              ELSE DoesNotExistOrValid(st, file, "branch_time_in_child",
                                       value_in_validator(<<file.time0>>))
    IN IF st.raised THEN st
       ELSE IF has_parent THEN HelperCalls(st, file, ParentSteps(file), 1)
       ELSE HelperCalls(StartOfRun, file, NoParentSteps, 1)

\* lines 333-554: the validations, from the counter and the list in st
GlobalAttributeSteps(st, m, file) ==
    ParentBranch(
      DerivedAttributeSteps(
        TableMetaStep(
          VarAttrLoop(
            AttrDictLoop(HelperCalls(st, file, FixedAttributeSteps(m), 1), file, 1),
            file, 1),
          m, file),
        m, file),
      file)

\* a faulty variant of check_global_attributes, without lines 330-331: it goes
\* on counting from self.__errors and appends to the list self.__messages
\* is bound to
CheckGlobalAttributesNoReset(cx, m, file, errors0, messages0) ==
    LET Outcome(st) ==
            [cx |-> st.cx, raised |-> st.raised, errors |-> st.errors,
             score |-> IF st.errors = 0 THEN 1 ELSE 0, out_of |-> 1,
             name |-> "Global attributes check", msgs |-> st.msgs,
             prior |-> st.msgs, rebound |-> FALSE]
    IN Outcome(GlobalAttributeSteps(
                 [cx |-> cx, raised |-> FALSE, errors |-> errors0, msgs |-> messages0],
                 m, file))

\* check_global_attributes(ds): [cx, raised, errors, score, out_of, name, msgs,
\* prior, rebound].  errors0 and messages0 are self.__errors and the contents
\* of self.__messages at the call.  Lines 330-331 set the counter to 0 and
\* bind self.__messages to a new list (rebound); the list it was bound to is
\* left with the contents it had (prior).
CheckGlobalAttributesRun(cx, m, file, errors0, messages0) ==
    LET Outcome(st) ==
            [cx |-> st.cx, raised |-> st.raised, errors |-> st.errors,
             score |-> IF st.errors = 0 THEN 1 ELSE 0, out_of |-> 1,
             name |-> "Global attributes check", msgs |-> st.msgs,
             prior |-> messages0, rebound |-> TRUE]
    IN Outcome(GlobalAttributeSteps(
                 [cx |-> cx, raised |-> FALSE, errors |-> 0, msgs |-> << >>],
                 m, file))

(***************************************************************************)
(* The table directory the class body loads (MIP_TABLES) and the files     *)
(* the checks are run on.                                                  *)
(***************************************************************************)
VariableEntry(standard_name, long_name, units) ==
    [k \in {"standard_name", "long_name", "units", "comment", "cell_methods"} |->
        CASE k = "standard_name" -> Str(standard_name)
          [] k = "long_name"     -> Str(long_name)
          [] k = "units"         -> Str(units)
          [] k = "comment"       -> Str("")
          [] k = "cell_methods"  -> Str("area: time: mean")]

\* a table file: valid JSON with a Header and its variable entries
TableFile(name, table, version, entries) ==
    [name |-> name, isfile |-> TRUE, json |-> TRUE,
     d |-> [k \in {"Header", "variable_entry"} |->
              IF k = "Header"
                THEN [h \in {"table_id", "data_specs_version"} |->
                        IF h = "table_id" THEN "Table " \o table ELSE version]
                ELSE entries]]

SIdayEntries ==
    [v \in {"siconc"} |-> VariableEntry("sea_ice_area_fraction", "Sea Ice Area Fraction", "%")]
FxEntries ==
    [v \in {"orog"} |-> VariableEntry("surface_altitude", "Surface Altitude", "m")]

\* the CV definition file: JSON with no Header
ReservedFile ==
    [name |-> RESERVED_CV_FILE, isfile |-> TRUE, json |-> TRUE,
     d |-> [k \in {"CV"} |-> EmptyDict]]

StdDir == << TableFile("CMIP6_Amon.json", "Amon", Str("01.00.20"),
                       [v \in {"tas", "ps"} |->
                          IF v = "tas"
                            THEN VariableEntry("air_temperature",
                                               "Near-Surface Air Temperature", "K")
                            ELSE VariableEntry("surface_air_pressure",
                                               "Surface Air Pressure", "Pa")]),
             ReservedFile,
             TableFile("CMIP6_SIday.json", "SIday", Str("01.00.20"), SIdayEntries),
             TableFile("CMIP6_fx.json", "fx", Str("01.00.20"), FxEntries) >>

\* __cache["mip_tables"] = MipTables(MIP_TABLES)
StdTables == LoadTablesFromDirectory(EmptyMipTables, StdDir).mip

AttrNames ==
    { StrReplace(CV_ATTRIBUTES[i], "-", "_") : i \in 1..Len(CV_ATTRIBUTES) }
    \cup { RUN_INDEX_ATTRIBUTES[i] : i \in 1..Len(RUN_INDEX_ATTRIBUTES) }
    \cup { MANDATORY_TEXT_ATTRIBUTES[i] : i \in 1..Len(MANDATORY_TEXT_ATTRIBUTES) }
    \cup { OPTIONAL_TEXT_ATTRIBUTES[i] : i \in 1..Len(OPTIONAL_TEXT_ATTRIBUTES) }
    \cup { PARENT_ATTRIBUTES[i] : i \in 1..Len(PARENT_ATTRIBUTES) }
    \cup { ATTR_DICT_KEYS[i] : i \in 1..Len(ATTR_DICT_KEYS) }
    \cup { "experiment", "institution", "Conventions", "creation_date",
           "data_specs_version", "external_variables", "license", "mip_era", "product",
           "source", "tracking_id", "further_info_url", "branch_time_in_child",
           "branch_time_in_parent", "parent_variant_label" }

\* the attributes of a compliant file of a run without a parent
BaseAttrs ==
    [a \in AttrNames |->
        CASE a = "activity_id"          -> Str("CMIP")
          [] a = "experiment_id"        -> Str("piControl")
          [] a = "frequency"            -> Str("mon")
          [] a = "grid_label"           -> Str("gn")
          [] a = "institution_id"       -> Str("MOHC")
          [] a = "realm"                -> Str("atmos")
          [] a = "source_id"            -> Str("GC31-LL")
          [] a = "source_type"          -> Str("AOGCM")
          [] a = "nominal_resolution"   -> Str("250 km")
          [] a = "table_id"             -> Str("Amon")
          [] a \in {"forcing_index", "physics_index", "initialization_index",
                    "realization_index"} -> Int32(1)
          [] a = "grid"                 -> Str("N96")
          [] a = "history"              -> Str("created by CMOR")
          [] a = "experiment"           -> Str("pre-industrial control")
          [] a = "institution"          -> Str("Met Office Hadley Centre, Exeter, UK")
          [] a = "Conventions"          -> Str("CF-1.7 CMIP-6.2")
          [] a = "creation_date"        -> Str("2017-06-01T12:30:00Z")
          [] a = "data_specs_version"   -> Str("01.00.20")
          [] a = "external_variables"   -> Str("areacella")
          [] a = "license"              -> Str(LICENSE_TEXT)
          [] a = "mip_era"              -> Str("CMIP6")
          [] a = "product"              -> Str("model-output")
          [] a = "source"               -> Str("HadGEM3-GC31-LL (2016)")
          [] a = "tracking_id"          -> Str("hdl:21.14100/0a1b-2c3d")
          [] a = "sub_experiment_id"    -> Str("none")
          [] a = "variant_label"        -> Str("r1i1p1f1")
          [] a = "variable_id"          -> Str("tas")
          [] a = "further_info_url"     ->
                Str("http://furtherinfo.es-doc.org/CMIP6.MOHC.GC31-LL.piControl.none.r1i1p1f1")
          [] a = "parent_experiment_id" -> Str("no parent")
          [] OTHER                      -> Absent ]

\* the attributes of the file's variable, as the table declares them
TasAttrs ==
    [k \in {VAR_ATTR_KEYS[i] : i \in 1..Len(VAR_ATTR_KEYS)} |->
        CASE k = "standard_name" -> Str("air_temperature")
          [] k = "long_name"     -> Str("Near-Surface Air Temperature")
          [] k = "units"         -> Str("K")
          [] k \in {"missing_value", "_FillValue"} -> [FILL_VALUE EXCEPT !.ty = "float32"]
          [] OTHER               -> Str("text") ]

FileName(facets) ==
    LET RECURSIVE Join(_)
        Join(i) == IF i > Len(facets) THEN ""
                   ELSE (IF i > 1 THEN "_" ELSE "") \o facets[i] \o Join(i + 1)
    IN "/data/" \o Join(1) \o ".nc"

BaseFacets == <<"tas", "Amon", "GC31-LL", "piControl", "r1i1p1f1", "gn", "185001-185912">>

BaseFile == [path |-> FileName(BaseFacets), attrs |-> BaseAttrs,
             variables |-> [v \in {"tas"} |-> TasAttrs], time0 |-> Float64(0)]

\* a compliant file of a run that branches from a parent
ParentFile ==
    [BaseFile EXCEPT !.attrs =
        [a \in AttrNames |->
            CASE a = "parent_experiment_id"  -> Str("historical")
              [] a = "branch_method"         -> Str("standard")
              [] a = "branch_time_in_child"  -> Float64(0)
              [] a = "branch_time_in_parent" -> Float64(36000)
              [] a = "parent_activity_id"    -> Str("CMIP")
              [] a = "parent_mip_era"        -> Str("CMIP6")
              [] a = "parent_source_id"      -> Str("GC31-LL")
              [] a = "parent_time_units"     -> Str("days since 1850-01-01")
              [] a = "parent_variant_label"  -> Str("r1i1p1f1")
              [] OTHER                       -> BaseAttrs[a] ]]

WithAttr(file, a, v) == [file EXCEPT !.attrs[a] = v]
WithFacet(file, i, facet) ==
    [file EXCEPT !.path = FileName([BaseFacets EXCEPT ![i] = facet])]

\* the files the checks are run on: the two compliant files and their variations
Files ==
    LET \* the values a file may hold in place of a compliant attribute
        AltValues(a) ==
            {Absent, Str("bogus")}
            \cup (IF a \in {PARENT_ATTRIBUTES[i] : i \in 1..Len(PARENT_ATTRIBUTES)}
                    THEN {Str("no parent")} ELSE {})
            \cup (IF a \in {RUN_INDEX_ATTRIBUTES[i] : i \in 1..Len(RUN_INDEX_ATTRIBUTES)}
                    THEN {Int32(2), Int32(0), Float64(10)} ELSE {})
            \cup (IF a \in {"branch_time_in_parent", "branch_time_in_child"}
                    THEN {Float64(0), Float64(10), [Float64(0) EXCEPT !.ty = "float32"], PyInt(0)} ELSE {})
            \cup (IF a \in {"tracking_id", "parent_time_units"} THEN {Int32(5)} ELSE {})
            \cup (IF a = "parent_experiment_id" THEN {Str("historical")} ELSE {})
            \cup (IF a = "parent_variant_label" THEN {Str("r2i1p1f1")} ELSE {})
            \cup (IF a = "frequency" THEN {Str("fx"), Str("day")} ELSE {})
            \cup (IF a = "table_id" THEN {Str("SIday")} ELSE {})
            \cup (IF a = "source_id" THEN {Str("UKESM1")} ELSE {})
            \cup (IF a = "variable_id" THEN {Str("ps")} ELSE {})

        ParentCluster ==
            {PARENT_ATTRIBUTES[i] : i \in 1..Len(PARENT_ATTRIBUTES)}
            \cup {"branch_time_in_child", "branch_time_in_parent", "parent_variant_label", "source_id"}

        \* one attribute of a compliant file changed
        AttributeFiles ==
            UNION { { WithAttr(BaseFile, a, v) : v \in AltValues(a) } : a \in AttrNames }
            \cup UNION { { WithAttr(ParentFile, a, v) : v \in AltValues(a) } : a \in ParentCluster }

        \* one attribute of the file's variable changed or missing, or no time coordinate
        VariableFiles ==
            { [BaseFile EXCEPT !.variables["tas"][k] = Str("other")] : k \in META }
            \cup { [BaseFile EXCEPT !.variables = [v \in {"tas"} |->
                       [k \in DOMAIN TasAttrs \ {"units"} |-> TasAttrs[k]]]],
                   [BaseFile EXCEPT !.variables = [v \in {"ps"} |-> TasAttrs]],
                   [BaseFile EXCEPT !.time0 = Absent],
                   [BaseFile EXCEPT !.time0 = Float64(10)],
                   [ParentFile EXCEPT !.time0 = Absent] }

        AltFacets ==
            << {"xx", "ps"}, {"SIday", "amon", "Xmon"}, {"UKESM1", "gc31-ll", "bogus"},
               {"historical", "bogus"},
               {"r1i1p1f1-picontrol", "r1i1p1f1-piControl", "r1i1p1f1-s1960", "r1i1p1", "r2i1p1f1"},
               {"gr", "gx"}, {} >>

        \* one facet of a compliant file's name changed
        NameFiles ==
            UNION { { WithFacet(BaseFile, i, f) : f \in AltFacets[i] } : i \in 1..Len(AltFacets) }

        \* a name with fewer facets, or with one more
        FacetCountFiles ==
            { [BaseFile EXCEPT !.path = FileName(SubSeq(BaseFacets, 1, n))] : n \in 1..6 }
            \cup { [BaseFile EXCEPT !.path = FileName(BaseFacets \o <<"v1">>)] }

        DateRanges == {"185001-185912", "185912-185001", "185001-185001", "1850-1859",
                       "18500101-18591230", "185001", "185013-185912", "18501-18502"}
        Frequencies == {Str("mon"), Str("day"), Str("yr"), Str("fx"), Str("bogus"), Absent}

        \* a date range under a declared frequency
        DateFiles ==
            { WithAttr(WithFacet(BaseFile, 7, r), "frequency", f) : r \in DateRanges, f \in Frequencies }
    IN {BaseFile, ParentFile} \cup AttributeFiles \cup VariableFiles
       \cup NameFiles \cup FacetCountFiles \cup DateFiles

NoFile == [path |-> "", attrs |-> [a \in AttrNames |-> Absent],
           variables |-> EmptyDict, time0 |-> Absent]

(***************************************************************************)
(* The checker process: the class-level cache as the class body builds it, *)
(* one CMIP6Check instance, and the dataset the host hands to its checks.  *)
(* The host opens one dataset and runs the two checks on it, in any order, *)
(* up to MaxCalls calls.                                                   *)
(***************************************************************************)
MaxCalls == 3

NoResult == [op |-> "none", raised |-> FALSE, score |-> 0, out_of |-> 0, name |-> "",
             msgs |-> << >>, value |-> "none", key |-> << >>]

Cx == [validated |-> validated, cvQueries |-> cvQueries, returned |-> returned]

IdleThreads == /\ pc = << >> /\ targ = << >> /\ tval = << >>

\* the class body (lines 178-193) and CMIP6Check.__init__.  __init__ assigns
\* self.__erorrs, so self.__errors is first set by check_global_attributes
\* (line 330), which reads it only after that: 0 stands for "not yet set".
Init ==
    /\ validated = EmptyValidated
    /\ cvQueries = EmptyDict
    /\ returned = EmptyDict
    /\ messages = << >>
    /\ errors = 0
    /\ result = NoResult
    /\ ds = NoFile
    /\ calls = 0
    /\ IdleThreads
    /\ mip = StdTables
    /\ dir = StdDir
    /\ loaded = "done"
    /\ held = << >>

SetCx(cx) ==
    /\ validated' = cx.validated
    /\ cvQueries' = cx.cvQueries
    /\ returned' = cx.returned

\* the host opens the dataset to check
Open(file) ==
    /\ ds = NoFile
    /\ ds' = file
    /\ UNCHANGED <<validated, cvQueries, returned, messages, errors, result, calls,
                   pc, targ, tval, mip, dir, loaded, held>>

\* checker.check_filename(ds)
CheckFilename ==
    /\ ds # NoFile
    /\ calls < MaxCalls
    /\ \E r \in {CheckFilenameRun(Cx, mip, ds)} :
       /\ SetCx(r.cx)
       /\ result' = [NoResult EXCEPT !.op = "check_filename", !.raised = r.raised,
                                     !.score = r.score, !.out_of = r.out_of,
                                     !.name = r.name, !.msgs = r.msgs]
       \* the Result holds the local list "messages"
       /\ held' = IF r.raised THEN held
                  ELSE Append(held, [op |-> "check_filename", score |-> r.score,
                                     msgs |-> r.msgs, shared |-> FALSE])
    /\ calls' = calls + 1
    /\ UNCHANGED <<messages, errors, ds, pc, targ, tval, mip, dir, loaded>>

\* checker.check_global_attributes(ds)
CheckGlobalAttributes ==
    /\ ds # NoFile
    /\ calls < MaxCalls
    /\ \E r \in {CheckGlobalAttributesRun(Cx, mip, ds, errors, messages)} :
       /\ SetCx(r.cx)
       /\ errors' = r.errors
       /\ messages' = r.msgs
       /\ result' = [NoResult EXCEPT !.op = "check_global_attributes", !.raised = r.raised,
                                     !.score = r.score, !.out_of = r.out_of,
                                     !.name = r.name, !.msgs = r.msgs]
       \* a Result holds the list it was made with, not a copy: one that
       \* shares its list with self.__messages shows what the call did to it
       /\ held' = [i \in 1..Len(held) |->
                        [held[i] EXCEPT !.msgs = IF held[i].shared THEN r.prior ELSE @,
                                        !.shared = @ /\ ~r.rebound]]
                  \o (IF r.raised THEN << >>
                      ELSE << [op |-> "check_global_attributes", score |-> r.score,
                               msgs |-> r.msgs, shared |-> TRUE] >>)
    /\ calls' = calls + 1
    /\ UNCHANGED <<ds, pc, targ, tval, mip, dir, loaded>>

Next ==
    \/ \E file \in Files : Open(file)
    \/ CheckFilename
    \/ CheckGlobalAttributes

Spec == Init /\ [][Next]_vars

(***************************************************************************)
(* One checker instance run over several datasets: the host hands it one   *)
(* dataset after the other and runs the two checks on each, in any order,  *)
(* up to MaxCalls calls, keeping the Results.                              *)
(***************************************************************************)
\* the host opens another dataset
OpenNext(file) ==
    /\ ds # file
    /\ calls < MaxCalls
    /\ ds' = file
    /\ UNCHANGED <<validated, cvQueries, returned, messages, errors, result, calls,
                   pc, targ, tval, mip, dir, loaded, held>>

NextSeq ==
    \/ \E file \in {BaseFile, ParentFile,
                     WithAttr(BaseFile, "source_id", Str("bogus")),
                     WithAttr(BaseFile, "table_id", Str("bogus")),
                     [BaseFile EXCEPT !.time0 = Absent]} : OpenNext(file)
    \/ CheckFilename
    \/ CheckGlobalAttributes

SpecSeq == Init /\ [][NextSeq]_vars

(***************************************************************************)
(* Direct calls of CMIP6Check._validate_term by one thread, one after the  *)
(* other, on the cache of a fresh process.                                 *)
(***************************************************************************)
ValidateTermCall(term, collection, term_type) ==
    /\ calls < MaxCalls
    /\ \E r \in {ValidateTerm(Cx, term, collection, term_type)} :
       /\ SetCx(r.cx)
       /\ result' = [NoResult EXCEPT !.op = "validate_term", !.value = r.value,
                                     !.key = <<term_type, collection, term>>]
    /\ calls' = calls + 1
    /\ UNCHANGED <<messages, errors, ds, pc, targ, tval, mip, dir, loaded, held>>

NextTerm ==
    \E term \in {Str("amon"), Str("Amon"), Str("bogus")},
       collection \in {"table-id", "experiment-id", "no-such-collection"},
       term_type \in TermTypes :
        ValidateTermCall(term, collection, term_type)

SpecTerm == Init /\ [][NextTerm]_vars

(***************************************************************************)
(* _validate_term called by NumThreads threads at once, with no lock: a    *)
(* thread may be preempted between any two statements.  pc[t] is the       *)
(* statement thread t is about to run, targ[t] its arguments and tval[t]   *)
(* the value it has computed, then the value it returned.                  *)
(***************************************************************************)
NumThreads == 2
Threads == 1..NumThreads

InitConc ==
    /\ validated = EmptyValidated
    /\ cvQueries = EmptyDict
    /\ returned = EmptyDict
    /\ messages = << >>
    /\ errors = 0
    /\ result = NoResult
    /\ ds = NoFile
    /\ calls = 0
    /\ pc = [t \in Threads |-> "idle"]
    /\ targ = [t \in Threads |-> << >>]
    /\ tval = [t \in Threads |-> "none"]
    /\ mip = StdTables
    /\ dir = StdDir
    /\ loaded = "done"
    /\ held = << >>

Goto(t, label) == pc' = [pc EXCEPT ![t] = label]
KeyOf(t) == <<targ[t].term_type, targ[t].collection, targ[t].term>>
OnlyPc == UNCHANGED <<validated, cvQueries, returned, messages, errors, result, ds, calls,
                      targ, tval, mip, dir, loaded, held>>

\* a thread enters _validate_term(term, collection, term_type)
Call(t, term, collection, term_type) ==
    /\ pc[t] = "idle"
    /\ targ' = [targ EXCEPT ![t] = [term |-> term, collection |-> collection,
                                    term_type |-> term_type]]
    /\ Goto(t, "if_collection")
    /\ UNCHANGED <<validated, cvQueries, returned, messages, errors, result, ds, calls,
                   tval, mip, dir, loaded, held>>

\* line 209: if collection in cache["validated"][term_type]
IfCollection(t) ==
    /\ pc[t] = "if_collection"
    /\ Goto(t, IF targ[t].collection \in DOMAIN validated[targ[t].term_type]
                 THEN "if_term" ELSE "new_collection")
    /\ OnlyPc

\* line 210: if term in cache["validated"][term_type][collection]
IfTerm(t) ==
    /\ pc[t] = "if_term"
    /\ Goto(t, IF targ[t].term \in DOMAIN validated[targ[t].term_type][targ[t].collection]
                 THEN "return" ELSE "lookup_cached")
    /\ OnlyPc

\* lines 214-220: the right-hand side of the assignment, or the except clause's
LookupCached(t) ==
    /\ pc[t] = "lookup_cached"
    /\ tval' = [tval EXCEPT ![t] = CachedCollectionLookup(targ[t].term, targ[t].collection,
                                                          targ[t].term_type)]
    /\ cvQueries' = Bump(cvQueries, KeyOf(t))
    /\ Goto(t, "store")
    /\ UNCHANGED <<validated, returned, messages, errors, result, ds, calls,
                   targ, mip, dir, loaded, held>>

\* line 222: cache["validated"][term_type][collection] = {}
NewCollection(t) ==
    /\ pc[t] = "new_collection"
    /\ validated' = [validated EXCEPT ![targ[t].term_type] =
                        DictPut(@, targ[t].collection, EmptyDict)]
    /\ Goto(t, "lookup_new")
    /\ UNCHANGED <<cvQueries, returned, messages, errors, result, ds, calls,
                   targ, tval, mip, dir, loaded, held>>

\* lines 223-229: the value to store for a collection seen for the first time
LookupNew(t) ==
    /\ pc[t] = "lookup_new"
    /\ tval' = [tval EXCEPT ![t] = NewCollectionLookup(targ[t].term, targ[t].collection,
                                                       targ[t].term_type)]
    /\ cvQueries' = Bump(cvQueries, KeyOf(t))
    /\ Goto(t, "store")
    /\ UNCHANGED <<validated, returned, messages, errors, result, ds, calls,
                   targ, mip, dir, loaded, held>>

\* cache["validated"][term_type][collection][term] = the value computed
Store(t) ==
    /\ pc[t] = "store"
    /\ validated' = [validated EXCEPT ![targ[t].term_type][targ[t].collection] =
                        DictPut(@, targ[t].term, tval[t])]
    /\ Goto(t, "return")
    /\ UNCHANGED <<cvQueries, returned, messages, errors, result, ds, calls,
                   targ, tval, mip, dir, loaded, held>>

\* lines 211 and 231: return cache["validated"][term_type][collection][term],
\* a KeyError when the entry is not in the dictionary
Return(t) ==
    /\ pc[t] = "return"
    /\ IF targ[t].term \in DOMAIN validated[targ[t].term_type][targ[t].collection]
         THEN /\ tval' = [tval EXCEPT ![t] =
                            validated[targ[t].term_type][targ[t].collection][targ[t].term]]
              /\ returned' = Note(returned, KeyOf(t),
                                  validated[targ[t].term_type][targ[t].collection][targ[t].term])
              /\ Goto(t, "done")
         ELSE /\ Goto(t, "failed")
              /\ UNCHANGED <<tval, returned>>
    /\ UNCHANGED <<validated, cvQueries, messages, errors, result, ds, calls,
                   targ, mip, dir, loaded, held>>

NextConc ==
    \E t \in Threads :
        \/ \E term \in {Str("Amon"), Str("bogus")},
              collection \in {"table-id", "no-such-collection"}, term_type \in {"label"} :
             Call(t, term, collection, term_type)
        \/ IfCollection(t)
        \/ IfTerm(t)
        \/ LookupCached(t)
        \/ NewCollection(t)
        \/ LookupNew(t)
        \/ Store(t)
        \/ Return(t)

SpecConc == InitConc /\ [][NextConc]_vars

(***************************************************************************)
(* MipTables(basedir): the loader run on a directory listing of up to      *)
(* MaxFiles entries, in the order listdir returns them.                    *)
(***************************************************************************)
MaxFiles == 4

\* a table of a later data specification
SIdayNext == TableFile("CMIP6_SIday.json", "SIday", Str("01.00.21"), SIdayEntries)

\* a file under the reserved name that holds a table
ReservedTable == TableFile(RESERVED_CV_FILE, "CV", Str("6.2.0"), FxEntries)

NotJson == [name |-> "README.md", isfile |-> TRUE, json |-> FALSE, d |-> EmptyDict]
\* the entries a directory may hold: tables, the reserved file, a file that
\* is not JSON, a sub-directory, JSON without Header, a Header without table_id
DirPool == { StdDir[1], SIdayNext, StdDir[4], ReservedFile, ReservedTable, NotJson,
             [name |-> "archive", isfile |-> FALSE, json |-> FALSE, d |-> EmptyDict],
             [name |-> "CMIP6_coordinate.json", isfile |-> TRUE, json |-> TRUE,
              d |-> [k \in {"axis_entry"} |-> EmptyDict]],
             [name |-> "CMIP6_grids.json", isfile |-> TRUE, json |-> TRUE,
              d |-> [k \in {"Header"} |-> [h \in {"Conventions"} |-> "CF-1.7"]]] }

\* the listings: no two entries of a directory have the same name
Listings ==
    UNION { { l \in [1..n -> DirPool] :
                \A i, j \in 1..n : i # j => l[i].name # l[j].name } : n \in 0..MaxFiles }

InitLoad ==
    /\ validated = EmptyValidated
    /\ cvQueries = EmptyDict
    /\ returned = EmptyDict
    /\ messages = << >>
    /\ errors = 0
    /\ result = NoResult
    /\ ds = NoFile
    /\ calls = 0
    /\ IdleThreads
    /\ mip = EmptyMipTables
    /\ dir \in Listings
    /\ loaded = "no"
    /\ held = << >>

\* MipTables.__init__: self._load_tables_from_directory(basedir)
Load ==
    /\ loaded = "no"
    /\ \E r \in {LoadTablesFromDirectory(mip, dir)} :
         /\ mip' = r.mip
         /\ loaded' = IF r.raised THEN "raised" ELSE "done"
    /\ UNCHANGED <<validated, cvQueries, returned, messages, errors, result, ds, calls,
                   pc, targ, tval, dir, held>>

NextLoad == Load

SpecLoad == InitLoad /\ [][NextLoad]_vars

(***************************************************************************)
(* A validator built by ValidatorFactory applied to a value: the host      *)
(* builds any of the predicates and calls it on a value of any type.       *)
(***************************************************************************)
\* f(x) for a predicate f of validators.py
ApplyValidator(val, x) ==
    /\ calls < MaxCalls
    /\ \E r \in {Validate(val, x)} :
         result' = [NoResult EXCEPT !.op = "validator", !.raised = (r = "raise"),
                                    !.value = r, !.name = val.v,
                                    !.key = <<x, IF val.v = "integer"
                                                   THEN <<val.positive, val.nonzero>>
                                                   ELSE << >> >>]
    /\ calls' = calls + 1
    /\ UNCHANGED <<validated, cvQueries, returned, messages, errors, ds,
                   pc, targ, tval, mip, dir, loaded, held>>

NextVal ==
    \E val \in {nonempty_validator, value_in_validator(<<Str("foo"), Str("bar")>>),
                 float_validator, calendar_validator, string_validator(NoRegex),
                 string_validator(Lit("days since")), date_validator("%Y-%m-%dT%H:%M:%SZ")}
                \cup {integer_validator(p, z) : p, z \in BOOLEAN},
       x \in {Str(""), Str("foo"), Str("moo"), Str("1"), Str("2017-06-01T12:30:00Z"),
              Str("2017-06-31T12:30:00Z"), Str("days since 1850-01-01"),
              Str("days since 01-01-1850 [gregorian]"), Str("days since 1-1-1990 [foo]"),
              Str("days since 3313 [gregorian]"), Str("days since 13-32 [noleap]"),
              Str("days since - [none]"), Str("foo [bar]"),
              PyInt(5), PyInt(0), PyInt(-4), PyInt(-1), Int32(4), Int32(0),
              [Int32(5) EXCEPT !.ty = "int64"],
              Float64(10), Float64(-10), Float64(0), [Float64(5) EXCEPT !.ty = "float"],
              [Float64(234) EXCEPT !.ty = "float"], [Float64(10) EXCEPT !.ty = "float32"],
              PyNone} :
        ApplyValidator(val, x)

SpecVal == Init /\ [][NextVal]_vars

(***************************************************************************)
(* Properties of the checks (Spec)                                         *)
(***************************************************************************)

\* C1: every Result returned by check_filename or check_global_attributes
\* has an empty message list if and only if its score is the maximum (1 of 1).
C1_MessagesEmptyIffFullScore ==
    (result.op \in {"check_filename", "check_global_attributes"} /\ ~result.raised)
        => ((result.msgs = << >>) <=> (result.score = result.out_of))

\* C2: check_filename never lets an exception escape: for every file it
\* returns a Result, and a failure is a score of 0 with a message.
C2_CheckFilenameNeverRaises ==
    result.op = "check_filename" =>
        /\ ~result.raised
        /\ result.score # result.out_of => (result.score = 0 /\ result.msgs # << >>)

\* C3: when one of the twelve working-set attributes cannot be retrieved,
\* check_global_attributes does not abort: it returns a Result with score 0
\* that has a message naming each missing attribute.
C3_MissingWorkingSetAttribute ==
    LET missing == {k \in {ATTR_DICT_KEYS[i] : i \in 1..Len(ATTR_DICT_KEYS)} : ~HasAttr(ds, k)}
    IN (result.op = "check_global_attributes" /\ missing # {}) =>
          /\ ~result.raised
          /\ result.score = 0
          /\ \A k \in missing : \E i \in 1..Len(result.msgs) :
                result.msgs[i] = Msg("Cannot retrieve global attribute {}", <<k>>)

\* C6: check_filename scores 1/1 iff every sub-check passed and 0/1 otherwise;
\* a file whose attributes match every facet scores 1/1 with no message, and
\* the same file with another stored source_id scores 0/1 with a message
\* naming source-id.
C6_ScoreIffAllSubChecksPass ==
    LET parts == StrSplit(StrSplit(Basename(ds.path), ".")[1], "_")
        Canon(coll) == {Scope[coll][i].canonical_name : i \in 1..Len(Scope[coll])}
        Stored(attr, text) == ds.attrs[attr].ty \in TextTypes /\ ds.attrs[attr].s = text
        FacetOk(coll, attr, i) == StrLower(parts[i]) \in Canon(coll) /\ Stored(attr, parts[i])
        member == StrSplit(parts[5], "-")
        VariantOk == ReMatch(VARIANT_LABEL_REGEX, member[1]) /\ Stored("variant_label", member[1])
        SubExperimentOk == Len(member) > 1 => member[2] \in Canon("experiment-id")
        VariableOk == parts[2] \in DOMAIN mip.tables => parts[1] \in DOMAIN mip.tables[parts[2]]
        freq == ds.attrs["frequency"]
        pieces == StrSplit(parts[7], "-")
        Parsed(k) == Strptime(pieces[k], DatetimeTemplates[freq.s])
        Before(a, b) == \E i \in 1..Len(a) : a[i] < b[i] /\ \A j \in 1..(i - 1) : a[j] = b[j]
        DateRangeOk ==
            Len(parts) = 7 =>
                /\ freq.ty \in TextTypes
                /\ freq.s \in DOMAIN DatetimeTemplates
                /\ freq.s # "fx" =>
                     /\ Len(pieces) >= 2
                     /\ Parsed(1).err = "none"
                     /\ Parsed(2).err = "none"
                     /\ Before(Parsed(1).dt, Parsed(2).dt)
        AllPass == /\ FacetOk("table-id", "table_id", 2)
                   /\ FacetOk("source-id", "source_id", 3)
                   /\ FacetOk("experiment-id", "experiment_id", 4)
                   /\ FacetOk("grid-label", "grid_label", 6)
                   /\ VariantOk
                   /\ SubExperimentOk
                   /\ VariableOk
                   /\ DateRangeOk
    IN (result.op = "check_filename" /\ ~result.raised) =>
          /\ result.score = (IF AllPass THEN 1 ELSE 0)
          /\ result.out_of = 1
          /\ ds = BaseFile => (result.score = 1 /\ result.msgs = << >>)
          /\ ds = WithAttr(BaseFile, "source_id", Str("UKESM1")) =>
                /\ result.score = 0
                /\ \E i \in 1..Len(result.msgs) :
                      \E j \in 1..Len(result.msgs[i].args) :
                          result.msgs[i].args[j] = "source-id"

\* C7: with seven facets, check_filename parses the date range with the
\* template of the declared frequency and wants the end strictly after the
\* start: a piece that does not parse, an equal or an inverted range gives an
\* invalid filename with a message, and so does a frequency that has no
\* template; under "mon", 185001-185912 passes and 185912-185001 fails.  (The
\* frequency "fx", which has an empty template, is the subject of C16.)
C7_DateRangeChecked ==
    LET parts == StrSplit(StrSplit(Basename(ds.path), ".")[1], "_")
        freq == ds.attrs["frequency"]
        pieces == StrSplit(parts[7], "-")
        Parsed(k) == Strptime(pieces[k], DatetimeTemplates[freq.s])
        Before(a, b) == \E i \in 1..Len(a) : a[i] < b[i] /\ \A j \in 1..(i - 1) : a[j] = b[j]
        Good == /\ freq.ty \in TextTypes
                /\ freq.s \in DOMAIN DatetimeTemplates
                /\ Len(pieces) >= 2
                /\ Parsed(1).err = "none"
                /\ Parsed(2).err = "none"
                /\ Before(Parsed(1).dt, Parsed(2).dt)
        Refused == \E i \in 1..Len(result.msgs) :
                      /\ result.msgs[i].fmt = "Invalid daterange {} ({})"
                      /\ result.msgs[i].args[1] = parts[7]
    IN (/\ result.op = "check_filename"
        /\ ~result.raised
        /\ Len(parts) = 7
        /\ freq # Str("fx")) =>
          /\ ~Good => (result.score = 0 /\ Refused)
          /\ Good => ~Refused
          /\ (freq.s = "mon" /\ parts[7] = "185001-185912") => (Good /\ ~Refused)
          /\ (freq.s = "mon" /\ parts[7] = "185912-185001") => (~Good /\ result.score = 0)

\* a range whose end equals its start has been refused
C7_EqualRangeRefused ==
    /\ result.op = "check_filename"
    /\ ~result.raised
    /\ ds = WithFacet(BaseFile, 7, "185001-185001")
    /\ result.score = 0
    /\ result.msgs # << >>

\* C8: in the parent-exists branch each of branch_method, branch_time_in_child,
\* branch_time_in_parent, parent_mip_era, parent_source_id, parent_time_units
\* and parent_variant_label must exist and be valid: the check returns a
\* Result that reports exactly the attributes that are missing or invalid,
\* with score 0 when there is one.
C8_ParentAttributesChecked ==
    LET required == {"branch_method", "branch_time_in_child", "branch_time_in_parent",
                     "parent_mip_era", "parent_source_id", "parent_time_units",
                     "parent_variant_label"}
        v(a) == ds.attrs[a]
        Text(a) == v(a).ty \in TextTypes
        Valid(a) ==
            CASE a = "branch_method" -> HasAttr(ds, a) /\ PyBool(v(a))
              [] a \in {"branch_time_in_child", "branch_time_in_parent"} ->
                    v(a).ty \in {"float64", "float"}
              [] a = "parent_mip_era" -> Text(a) /\ v(a).s = "CMIP6"
              [] a = "parent_source_id" ->
                    Text(a) /\ Text("source_id") /\ v(a).s = v("source_id").s
              [] a = "parent_time_units" ->
                    Text(a) /\ Len(v(a).s) >= 10 /\ SubSeq(v(a).s, 1, 10) = "days since"
              [] a = "parent_variant_label" -> Text(a) /\ ReMatch(VARIANT_LABEL_REGEX, v(a).s)
        Reported(a) == \E i \in 1..Len(result.msgs) :
            result.msgs[i] = Msg("Attribute {} must exist and have a proper value", <<a>>)
    IN (/\ result.op = "check_global_attributes"
        /\ HasAttr(ds, "parent_experiment_id")
        /\ ds.attrs["parent_experiment_id"] = Str("historical")
        /\ \A a \in AttrNames \ required : ds.attrs[a] = ParentFile.attrs[a]
        /\ ds.path = ParentFile.path /\ ds.variables = ParentFile.variables
        /\ ds.time0 = ParentFile.time0) =>
          /\ ~result.raised
          /\ \A a \in required : Reported(a) <=> ~Valid(a)
          /\ result.score = (IF \A a \in required : Valid(a) THEN 1 ELSE 0)

\* C9: in the no-parent branch a parent-cluster attribute that is absent or
\* "no parent" raises no error and one with another value raises an error;
\* branch_time_in_parent raises an error only when present and not 0.0; a file
\* with parent_experiment_id = "no parent" and no branch_time_in_parent passes.
C9_NoParentBranch ==
    LET cluster == {"branch_method", "parent_activity_id", "parent_experiment_id",
                    "parent_mip_era", "parent_source_id", "parent_time_units"}
        v(a) == ds.attrs[a]
        NoParentValue(a) == v(a).ty \in TextTypes /\ v(a).s = "no parent"
        Zero(a) == v(a).ty \in NumericTypes /\ v(a).n = 0 /\ v(a).s = ""
        Reported(a) == \E i \in 1..Len(result.msgs) :
            result.msgs[i] = Msg("Attribute {} needs to have a valid value or be omitted", <<a>>)
    IN (/\ result.op = "check_global_attributes"
        /\ ~result.raised
        /\ (~HasAttr(ds, "parent_experiment_id") \/ NoParentValue("parent_experiment_id"))) =>
          /\ \A a \in cluster : Reported(a) <=> (HasAttr(ds, a) /\ ~NoParentValue(a))
          /\ Reported("branch_time_in_parent") <=>
                (HasAttr(ds, "branch_time_in_parent") /\ ~Zero("branch_time_in_parent"))
          /\ \A a \in cluster \cup {"branch_time_in_parent"} :
                Reported(a) => (result.score = 0 /\ errors > 0)
          /\ ds = BaseFile => (result.score = 1 /\ errors = 0)

\* a run without parent that names a parent_mip_era has been refused
C9_StrayParentAttributeRefused ==
    /\ result.op = "check_global_attributes"
    /\ ~result.raised
    /\ ds = WithAttr(BaseFile, "parent_mip_era", Str("bogus"))
    /\ result.score = 0
    /\ errors = 1

(***************************************************************************)
(* Properties of the term cache (SpecTerm, SpecConc)                       *)
(***************************************************************************)

\* C4: all the calls of _validate_term with the same (term, collection, kind)
\* return the same result, and only the first of them reads the CV scope.
C4_TermCacheIdempotent ==
    \A key \in DOMAIN returned :
        /\ Cardinality(returned[key]) = 1
        /\ key \in DOMAIN cvQueries
        /\ cvQueries[key] = 1

\* the same key has been asked for twice
C4_SameKeyTwice ==
    /\ calls = 2
    /\ Cardinality(DOMAIN returned) = 1
    /\ result.op = "validate_term"
    /\ result.value = "true"

\* C5: with the statements of concurrent _validate_term calls interleaved, no
\* call fails, every call returns the value a sequential call returns for its
\* key, and the entry of a finished call is in the cache with that value.
C5_ConcurrentCallsSafe ==
    \A t \in Threads :
        /\ pc[t] # "failed"
        /\ pc[t] = "done" =>
             /\ tval[t] = ValidateTerm([validated |-> EmptyValidated, cvQueries |-> EmptyDict,
                                        returned |-> EmptyDict],
                                       targ[t].term, targ[t].collection,
                                       targ[t].term_type).value
             /\ Cached(validated, targ[t].term, targ[t].collection, targ[t].term_type)
             /\ validated[targ[t].term_type][targ[t].collection][targ[t].term] = tval[t]

(***************************************************************************)
(* Properties of the table loader (SpecLoad)                               *)
(***************************************************************************)

\* C10: loading a directory of N valid table files, the reserved CV file and
\* files that are not JSON gives names of length N without the reserved file,
\* the version of the first table file listed, and does not abort.
C10_TableDirectoryLoaded ==
    LET Aborts(f) == f.isfile /\ f.name # RESERVED_CV_FILE /\ f.json
                     /\ "Header" \in DOMAIN f.d
                     /\ ~ ({"table_id", "data_specs_version"} \subseteq DOMAIN f.d["Header"]
                           /\ "variable_entry" \in DOMAIN f.d)
        tables == {i \in 1..Len(dir) :
                      /\ dir[i].isfile /\ dir[i].json /\ dir[i].name # RESERVED_CV_FILE
                      /\ "Header" \in DOMAIN dir[i].d}
        first == CHOOSE i \in tables : \A j \in tables : i <= j
    IN (loaded # "no" /\ \A i \in 1..Len(dir) : ~Aborts(dir[i])) =>
          /\ loaded = "done"
          /\ Len(mip.table_list) = Cardinality(tables)
          /\ \A k \in 1..Len(mip.table_list) : mip.table_list[k] # "CV"
          /\ \A i \in tables : \E k \in 1..Len(mip.table_list) :
                "Table " \o mip.table_list[k] = dir[i].d["Header"]["table_id"]
          /\ mip.version = (IF tables = {} THEN PyNone
                            ELSE dir[first].d["Header"]["data_specs_version"])

\* two tables of different versions, the later one first, the reserved file
\* with a table in it and a file that is not JSON have been loaded
C10_MixedDirectoryLoaded ==
    /\ loaded = "done"
    /\ dir = << SIdayNext, NotJson, ReservedTable, StdDir[1] >>
    /\ mip.table_list = << "SIday", "Amon" >>
    /\ mip.version = Str("01.00.21")

(***************************************************************************)
(* Properties of the validators (SpecVal)                                  *)
(***************************************************************************)

\* C11: every predicate built by ValidatorFactory is total: applied to a value
\* of any runtime type it returns a boolean and does not raise.
C11_ValidatorsTotal ==
    result.op = "validator" => (~result.raised /\ result.value \in {"true", "false"})

\* C12: integer_validator(positive, nonzero)(x) is true iff x is of an integral
\* type and (positive => x is not negative) and (nonzero => x is not 0); the
\* default accepts 5 and rejects 0, -4, 0.5 and "1"; (True, False) accepts 0;
\* (False, True) and (False, False) accept -1.
C12_IntegerValidator ==
    LET x == result.key[1]
        positive == result.key[2][1]
        nonzero == result.key[2][2]
        Integral == x.ty \in {"int", "int32", "int64"}
        Is(p, z, y, outcome) == (positive = p /\ nonzero = z /\ x = y) => result.value = outcome
    IN (result.op = "validator" /\ result.name = "integer") =>
          /\ result.value = Bool(/\ Integral
                                 /\ positive => x.n >= 0
                                 /\ nonzero => x.n # 0)
          /\ Is(TRUE, TRUE, PyInt(5), "true")
          /\ Is(TRUE, TRUE, PyInt(0), "false")
          /\ Is(TRUE, TRUE, PyInt(-4), "false")
          /\ Is(TRUE, TRUE, [Float64(5) EXCEPT !.ty = "float"], "false")
          /\ Is(TRUE, TRUE, Str("1"), "false")
          /\ Is(TRUE, FALSE, PyInt(0), "true")
          /\ Is(FALSE, TRUE, PyInt(-1), "true")
          /\ Is(FALSE, FALSE, PyInt(-1), "true")

(***************************************************************************)
(* Properties of the term cache over a series of calls (SpecTerm)          *)
(***************************************************************************)

\* C13: once a (kind, collection) pair has been requested with a collection
\* that the CV scope does not hold, every call for that pair, whatever the
\* term, returns None, and the scope is read for the pair once and no more.
C13_UnknownCollectionCached ==
    LET Unknown(key) == key[2] \notin DOMAIN Scope
    IN /\ \A key \in DOMAIN returned : Unknown(key) => returned[key] = {"none"}
       /\ \A k1, k2 \in DOMAIN cvQueries :
             (Unknown(k1) /\ k1[1] = k2[1] /\ k1[2] = k2[2]) =>
                 (k1 = k2 /\ cvQueries[k1] = 1)

\* C14: over a series of _validate_term calls the cache only grows: an entry
\* (kind, collection, term) that is in the cache stays in it with the value it
\* has, and a call adds at most the entry of its own key, so that a key is
\* written at most once.
C14_CacheOnlyGrows ==
    [][ LET Keys(v) == UNION { UNION { { <<tt, c, term>> : term \in DOMAIN v[tt][c] } :
                                       c \in DOMAIN v[tt] } : tt \in DOMAIN v }
        IN /\ \A k \in Keys(validated) :
                 /\ k \in Keys(validated')
                 /\ validated'[k[1]][k[2]][k[3]] = validated[k[1]][k[2]][k[3]]
           /\ Keys(validated') \ Keys(validated) \subseteq {result'.key}
           /\ \A tt \in DOMAIN validated : DOMAIN validated[tt] \subseteq DOMAIN validated'[tt]
      ]_vars

\* three terms of one collection have been asked for, and all three are cached
C14_ThreeTermsCached ==
    /\ calls = 3
    /\ "table-id" \in DOMAIN validated["label"]
    /\ Cardinality(DOMAIN validated["label"]["table-id"]) = 3

(***************************************************************************)
(* Properties of the facet loop, the date range and the error counter      *)
(* (Spec)                                                                  *)
(***************************************************************************)

\* C15: in check_filename the CV membership check and the comparison of the
\* stored attribute with the filename facet are independent for each of
\* table-id, source-id, experiment-id and grid-label, and no facet's failure
\* stops the others: a facet that is no CV term gives an "Invalid term"
\* message, a stored attribute that differs from the facet gives a mismatch
\* message whether or not the facet is a CV term, and either makes the
\* filename invalid.
C15_FacetChecksIndependent ==
    LET parts == StrSplit(StrSplit(Basename(ds.path), ".")[1], "_")
        Canon(coll) == {Scope[coll][i].canonical_name : i \in 1..Len(Scope[coll])}
        Said(fmt, k, cv) == \E i \in 1..Len(result.msgs) :
                               /\ result.msgs[i].fmt = fmt
                               /\ result.msgs[i].args[k] = cv
        Checked(cv, i) ==
            LET attr == ds.attrs[StrReplace(cv, "-", "_")]
                NoTerm == StrLower(parts[i]) \notin Canon(cv)
                Differs == attr # Absent /\ ~PyEq(attr, Str(parts[i]))
            IN /\ NoTerm <=> Said("Invalid term {} in the filename {}", 1, cv)
               /\ Differs <=> Said("Value {} of the attribute {} doesn't match filename {}", 2, cv)
               /\ (NoTerm \/ Differs) => result.score = 0
    IN (result.op = "check_filename" /\ ~result.raised /\ Len(parts) >= 6) =>
          \A t \in 1..Len(TemplateDict) : Checked(TemplateDict[t].cv, TemplateDict[t].idx + 1)

\* C16: when the declared frequency is "fx" no date range is expected:
\* parse_date_range returns no range without raising, and check_filename on
\* a name of seven facets adds no date-range message and does not mark the
\* filename invalid because of the seventh facet (it scores 1/1 with no
\* message when the other sub-checks pass).
C16_FxSkipsDateRange ==
    LET parts == StrSplit(StrSplit(Basename(ds.path), ".")[1], "_")
        Canon(coll) == {Scope[coll][i].canonical_name : i \in 1..Len(Scope[coll])}
        Stored(attr, text) == ds.attrs[attr].ty \in TextTypes /\ ds.attrs[attr].s = text
        FacetOk(coll, attr, i) == StrLower(parts[i]) \in Canon(coll) /\ Stored(attr, parts[i])
        member == StrSplit(parts[5], "-")
        OthersPass ==
            /\ FacetOk("table-id", "table_id", 2)
            /\ FacetOk("source-id", "source_id", 3)
            /\ FacetOk("experiment-id", "experiment_id", 4)
            /\ FacetOk("grid-label", "grid_label", 6)
            /\ ReMatch(VARIANT_LABEL_REGEX, member[1]) /\ Stored("variant_label", member[1])
            /\ Len(member) > 1 => member[2] \in Canon("experiment-id")
            /\ parts[2] \in DOMAIN mip.tables => parts[1] \in DOMAIN mip.tables[parts[2]]
    IN (/\ result.op = "check_filename"
        /\ ~result.raised
        /\ Len(parts) = 7
        /\ ds.attrs["frequency"] = Str("fx")) =>
          /\ ParseDateRange(parts[7], ds.attrs["frequency"]) = [exc |-> "none", ret |-> "None"]
          /\ \A i \in 1..Len(result.msgs) : result.msgs[i].fmt # "Invalid daterange {} ({})"
          /\ OthersPass => (result.score = 1 /\ result.msgs = << >>)

\* C17: in check_global_attributes every failed validation adds exactly one
\* to the error counter and exactly one message, so the Result it returns has
\* as many messages as the final error counter, and its score is 1 iff the
\* counter is zero; this includes a table-metadata mismatch and a time
\* variable that cannot be retrieved.
C17_OneMessagePerError ==
    (result.op = "check_global_attributes" /\ ~result.raised) =>
        /\ Len(result.msgs) = errors
        /\ result.msgs = messages
        /\ result.score = 1 <=> errors = 0

(***************************************************************************)
(* Properties of one checker instance run over several datasets (SpecSeq)  *)
(***************************************************************************)

\* C18: check_global_attributes starts every invocation from a counter of 0
\* and an empty message list, so whatever check_filename and
\* check_global_attributes calls came before on the same instance, the Result
\* of check_global_attributes on a file is the one a fresh checker gives for
\* that file (nothing of an earlier failing file is carried over), and no
\* Result returned earlier is changed by a later call.
C18_ResultDependsOnFileOnly ==
    [][ LET fresh == CheckGlobalAttributesRun(
                         [validated |-> EmptyValidated, cvQueries |-> EmptyDict,
                          returned |-> EmptyDict], mip, ds', 0, << >>)
        IN /\ (calls' = calls + 1 /\ result'.op = "check_global_attributes") =>
                /\ result'.raised = fresh.raised
                /\ ~result'.raised =>
                     /\ result'.score = fresh.score
                     /\ result'.out_of = fresh.out_of
                     /\ result'.msgs = fresh.msgs
                     /\ errors' = fresh.errors
                     /\ messages' = fresh.msgs
           /\ \A i \in 1..Len(held) :
                /\ i <= Len(held')
                /\ held'[i].op = held[i].op
                /\ held'[i].score = held[i].score
                /\ held'[i].msgs = held[i].msgs ]_vars

\* a failing file has been checked, and then a compliant file on the same
\* instance: the later Result is clean and the earlier one is still held
C18_CleanAfterFailing ==
    /\ ds = BaseFile
    /\ result.op = "check_global_attributes"
    /\ ~result.raised
    /\ result.score = 1
    /\ result.msgs = << >>
    /\ Len(held) = 2
    /\ held[1].op = "check_global_attributes"
    /\ held[1].score = 0
    /\ held[1].msgs # << >>

====
